---- MODULE Spec2Model ----
(***************************************************************************)
(* A model of the collection-and-reconciliation layer of the financial     *)
(* markets pipeline: field coercion (clean_value, clean_numeric,           *)
(* clean_date), the canonical record mappers, the source resolver          *)
(* (collect_and_insert_asset), the two batch runners, the derived metrics  *)
(* (realized volatility, sector aggregates) and the SQLite persistence     *)
(* layer.                                                                  *)
(*                                                                         *)
(* Python values are records [t, neg, s, f]:                               *)
(*   t   the Python type ("NoneType", "str", "int", "float", "date")       *)
(*   s   a str's characters; a number's integer digits; a float's "inf" or *)
(*       "nan"; a date's ISO characters                                    *)
(*   f   a float's fractional digits                                       *)
(*   neg the sign of a number                                              *)
(* Numbers are kept as decimal digit sequences, so that parsing,           *)
(* truncation and magnitude are computed digit by digit and no machine     *)
(* width limits them.                                                      *)
(***************************************************************************)
EXTENDS Integers, Sequences, FiniteSets, TLC

VARIABLES
    coerce,         \* the last Field Coercion call: function, input, kind, outcome
    assets,         \* table assets: a set of rows
    daily_prices,   \* table daily_prices: a set of rows
    economic_indicators, \* table economic_indicators: a set of rows
    volatility_data,     \* table volatility_data: a set of rows
    dbcall,         \* the last Persistence Layer call and how it ended
    lastAsset,      \* per symbol, the asset_data of the latest insert_asset call
    resolve,        \* the last collect_and_insert_asset call: inputs and outcome
    sector_performance, \* table sector_performance: a set of rows
    sector_run,     \* the last update_sector_performance call
    vol,            \* the last calculate_realized_volatility call and its result
    batch,          \* the batch runner in progress: items, position, event log
    connection      \* the shared connection: the statements of its open transaction

macroVars == <<economic_indicators, volatility_data>>
dbVars == <<assets, daily_prices, macroVars>>
callVars == <<dbcall, lastAsset>>
runVars == <<resolve>>
sectorVars == <<sector_performance, sector_run>>
vars == <<coerce, dbVars, callVars, runVars, sectorVars, vol, batch, connection>>

----------------------------------------------------------------------------
(* Python values                                                           *)

PyNone == [t |-> "NoneType", neg |-> FALSE, s |-> <<>>, f |-> <<>>]
PyStr(cs) == [t |-> "str", neg |-> FALSE, s |-> cs, f |-> <<>>]
PyInt(neg, ip) == [t |-> "int", neg |-> neg, s |-> ip, f |-> <<>>]
PyFloat(neg, ip, fp) == [t |-> "float", neg |-> neg, s |-> ip, f |-> fp]
PyInf(neg) == [t |-> "float", neg |-> neg, s |-> <<"i", "n", "f">>, f |-> <<>>]
PyNaN == [t |-> "float", neg |-> FALSE, s |-> <<"n", "a", "n">>, f |-> <<>>]
PyDate(iso) == [t |-> "date", neg |-> FALSE, s |-> iso, f |-> <<>>]

IsInf(v) == v.t = "float" /\ v.s = <<"i", "n", "f">>
IsNaN(v) == v.t = "float" /\ v.s = <<"n", "a", "n">>

\* What a call returns: the value, or the exception it raised.
Ret(v) == [exc |-> "none", val |-> v]
Raise(e) == [exc |-> e, val |-> PyNone]

Digits == {"0", "1", "2", "3", "4", "5", "6", "7", "8", "9"}

DigitVal(c) ==
    CASE c = "0" -> 0 [] c = "1" -> 1 [] c = "2" -> 2 [] c = "3" -> 3
      [] c = "4" -> 4 [] c = "5" -> 5 [] c = "6" -> 6 [] c = "7" -> 7
      [] c = "8" -> 8 [] c = "9" -> 9

AllDigits(cs) == \A i \in 1..Len(cs) : cs[i] \in Digits

RECURSIVE NatOf(_)
NatOf(ds) ==
    IF ds = <<>> THEN 0
    ELSE 10 * NatOf(SubSeq(ds, 1, Len(ds) - 1)) + DigitVal(ds[Len(ds)])

DigitChars == <<"0", "1", "2", "3", "4", "5", "6", "7", "8", "9">>

RECURSIVE DigitsOf(_)
DigitsOf(n) ==
    IF n < 10 THEN <<DigitChars[n + 1]>>
    ELSE DigitsOf(n \div 10) \o <<DigitChars[(n % 10) + 1]>>

RECURSIVE StripLeadingZeros(_)
StripLeadingZeros(ds) ==
    IF ds = <<>> THEN <<"0">>
    ELSE IF ds[1] = "0" /\ Len(ds) > 1 THEN StripLeadingZeros(Tail(ds))
    ELSE ds

RECURSIVE StripTrailingZeros(_)
StripTrailingZeros(ds) ==
    IF ds = <<>> THEN <<>>
    ELSE IF ds[Len(ds)] = "0" THEN StripTrailingZeros(SubSeq(ds, 1, Len(ds) - 1))
    ELSE ds

\* bool(value)
Truthy(v) ==
    CASE v.t = "NoneType" -> FALSE
      [] v.t = "str" -> v.s # <<>>
      [] v.t = "int" -> v.s # <<"0">>
      [] v.t = "float" -> ~(v.s = <<"0">> /\ v.f = <<>>)
      [] OTHER -> TRUE

ToLower(c) ==
    CASE c = "I" -> "i" [] c = "N" -> "n" [] c = "F" -> "f" [] c = "T" -> "t"
      [] c = "Y" -> "y" [] c = "A" -> "a" [] OTHER -> c

LowerSeq(cs) == [i \in 1..Len(cs) |-> ToLower(cs[i])]

\* 2^53: up to it every integer is a float.
Two53 == <<"9", "0", "0", "7", "1", "9", "9", "2", "5", "4", "7", "4", "0", "9", "9", "2">>

\* a < b for two naturals written without leading zeros.
DigitsLess(a, b) ==
    \/ Len(a) < Len(b)
    \/ /\ Len(a) = Len(b)
       /\ \E i \in 1..Len(a) :
             /\ \A j \in 1..(i - 1) : a[j] = b[j]
             /\ DigitVal(a[i]) < DigitVal(b[i])

RECURSIVE IncDigits(_)
IncDigits(ds) ==
    IF ds = <<>> THEN <<"1">>
    ELSE IF ds[Len(ds)] = "9" THEN IncDigits(SubSeq(ds, 1, Len(ds) - 1)) \o <<"0">>
    ELSE SubSeq(ds, 1, Len(ds) - 1) \o <<DigitChars[DigitVal(ds[Len(ds)]) + 2]>>

RECURSIVE DecDigits(_)
DecDigits(ds) ==
    IF ds[Len(ds)] = "0" THEN DecDigits(SubSeq(ds, 1, Len(ds) - 1)) \o <<"9">>
    ELSE SubSeq(ds, 1, Len(ds) - 1) \o <<DigitChars[DigitVal(ds[Len(ds)])]>>

\* The float nearest to a number between 2^53 and 2^54, where the floats are
\* the even integers: an even integer part stays, an odd one with a fraction
\* goes up, and an odd integer goes to its neighbour that is a multiple of 4
\* (round half to even).
Binary64Int(ip, fp) ==
    LET odd == DigitVal(ip[Len(ip)]) % 2 = 1
        last2 == NatOf(SubSeq(ip, Len(ip) - 1, Len(ip)))
    IN  IF ~odd THEN ip
        ELSE IF fp # <<>> THEN IncDigits(ip)
        ELSE IF last2 % 4 = 1 THEN DecDigits(ip)
        ELSE IncDigits(ip)

\* A finite float from its sign and digits; -0.0 == 0.0 in Python, and both are
\* kept as the one value 0.0. A float is written as the shortest decimal that
\* denotes it, which for a number of at most 15 significant digits is the
\* number; above 2^53 the integer is rounded to a float. The modelled numbers
\* have at most 15 significant digits or are integers below 2^54.
MkFloat(neg, ip, fp) ==
    LET i == StripLeadingZeros(ip)
        fr == StripTrailingZeros(fp)
    IN  IF DigitsLess(Two53, i) THEN PyFloat(neg, Binary64Int(i, fr), <<>>)
        ELSE PyFloat(neg /\ ~(i = <<"0">> /\ fr = <<>>), i, fr)

\* float(str): an optional sign, then inf, infinity or nan in any case, or a
\* decimal with at least one digit. The characters of the modelled inputs hold no
\* white space, underscore or exponent.
FloatOfStr(cs) ==
    LET signed == cs # <<>> /\ cs[1] \in {"+", "-"}
        neg == cs # <<>> /\ cs[1] = "-"
        body == IF signed THEN Tail(cs) ELSE cs
        low == LowerSeq(body)
        dots == {i \in 1..Len(body) : body[i] = "."}
        d == CHOOSE i \in dots : TRUE
        ip == IF dots = {} THEN body ELSE SubSeq(body, 1, d - 1)
        fp == IF dots = {} THEN <<>> ELSE SubSeq(body, d + 1, Len(body))
    IN  IF low \in {<<"i", "n", "f">>, <<"i", "n", "f", "i", "n", "i", "t", "y">>}
            THEN Ret(PyInf(neg))
        ELSE IF low = <<"n", "a", "n">> THEN Ret(PyNaN)
        ELSE IF Cardinality(dots) <= 1 /\ AllDigits(ip) /\ AllDigits(fp)
                /\ Len(ip) + Len(fp) > 0
            THEN Ret(MkFloat(neg, ip, fp))
        ELSE Raise("ValueError")

\* float(value)
PyFloatOf(v) ==
    CASE v.t = "str" -> FloatOfStr(v.s)
      [] v.t = "int" -> Ret(MkFloat(v.neg, v.s, <<>>))
      [] v.t = "float" -> Ret(v)
      [] OTHER -> Raise("TypeError")

\* int(x) of a float x: truncation toward zero; int(inf) and int(nan) raise.
PyIntOfFloat(x) ==
    IF IsInf(x) THEN Raise("OverflowError")
    ELSE IF IsNaN(x) THEN Raise("ValueError")
    ELSE Ret(PyInt(x.neg /\ x.s # <<"0">>, x.s))

LeapYear(y) == y % 4 = 0 /\ (y % 100 # 0 \/ y % 400 = 0)

DaysInMonth(y, m) ==
    IF m = 2 THEN (IF LeapYear(y) THEN 29 ELSE 28)
    ELSE IF m \in {4, 6, 9, 11} THEN 30 ELSE 31

Pad2(ds) == IF Len(ds) = 1 THEN <<"0">> \o ds ELSE ds

\* datetime.strptime(value, '%Y-%m-%d').date(): %Y is four digits, %m and %d one
\* or two digits in range, nothing may remain, and the date must exist. A value
\* that is no str is a TypeError.
Strptime(v) ==
    IF v.t # "str" THEN Raise("TypeError")
    ELSE
    LET cs == v.s
        dashes == {i \in 1..Len(cs) : cs[i] = "-"}
        d1 == CHOOSE i \in dashes : \A j \in dashes : i <= j
        d2 == CHOOSE i \in dashes : \A j \in dashes : i >= j
        ys == SubSeq(cs, 1, d1 - 1)
        ms == SubSeq(cs, d1 + 1, d2 - 1)
        ds == SubSeq(cs, d2 + 1, Len(cs))
        shaped == /\ Cardinality(dashes) = 2
                  /\ Len(ys) = 4 /\ AllDigits(ys)
                  /\ Len(ms) \in {1, 2} /\ AllDigits(ms)
                  /\ Len(ds) \in {1, 2} /\ AllDigits(ds)
    IN  IF ~shaped THEN Raise("ValueError")
        ELSE IF /\ NatOf(ms) \in 1..12
                /\ NatOf(ds) >= 1
                /\ NatOf(ys) >= 1
                /\ NatOf(ds) <= DaysInMonth(NatOf(ys), NatOf(ms))
            THEN Ret(PyDate(ys \o <<"-">> \o Pad2(ms) \o <<"-">> \o Pad2(ds)))
        ELSE Raise("ValueError")

\* str(value)
PyStrOf(v) ==
    CASE v.t = "NoneType" -> PyStr(<<"N", "o", "n", "e">>)
      [] v.t = "str" -> v
      [] v.t = "int" -> PyStr((IF v.neg THEN <<"-">> ELSE <<>>) \o v.s)
      [] v.t = "float" ->
            IF IsInf(v) \/ IsNaN(v) THEN PyStr((IF v.neg THEN <<"-">> ELSE <<>>) \o v.s)
            ELSE PyStr((IF v.neg THEN <<"-">> ELSE <<>>) \o v.s \o <<".">>
                       \o (IF v.f = <<>> THEN <<"0">> ELSE v.f))
      [] OTHER -> PyStr(v.s)

----------------------------------------------------------------------------
(* Field Coercion                                                          *)

StrNone == <<"N", "o", "n", "e">>
StrDash == <<"-">>
StrNA == <<"N", "/", "A">>

\* the list ['None', '-', 'N/A', '', None] of clean_value
Sentinels == {PyStr(StrNone), PyStr(StrDash), PyStr(StrNA), PyStr(<<>>), PyNone}

\* the list ['None', '-', 'N/A', '', None] of clean_numeric
NumericSentinels == {PyStr(StrNone), PyStr(StrDash), PyStr(StrNA), PyStr(<<>>), PyNone}

\* except (ValueError, TypeError): return None
CatchValueType(r) == IF r.exc \in {"ValueError", "TypeError"} THEN Ret(PyNone) ELSE r

\* except ValueError: return None
CatchValue(r) == IF r.exc = "ValueError" THEN Ret(PyNone) ELSE r

\* int(value) without the float in between: a string with a decimal point is a
\* ValueError.
IntOfFloatOf_direct(v) ==
    LET x == PyFloatOf(v)
    IN  IF x.exc # "none" THEN x
        ELSE IF v.t = "str" /\ \E i \in 1..Len(v.s) : v.s[i] = "." THEN Raise("ValueError")
        ELSE PyIntOfFloat(x.val)

\* int(float(value))
IntOfFloatOf(v) ==
    LET x == PyFloatOf(v) IN IF x.exc # "none" THEN x ELSE PyIntOfFloat(x.val)

\* A clean_value whose sentinel test knows only None and the empty string.
clean_value_few_sentinels(value, data_type) ==
    IF value \in {PyStr(<<>>), PyNone} THEN Ret(PyNone)
    ELSE IF data_type = "float" THEN CatchValueType(PyFloatOf(value))
    ELSE IF data_type = "int" THEN CatchValueType(IntOfFloatOf(value))
    ELSE IF data_type = "date" THEN
        (IF Truthy(value) /\ value # PyStr(StrNone)
            THEN CatchValue(Strptime(value))
            ELSE Ret(PyNone))
    ELSE IF Truthy(value) THEN Ret(PyStrOf(value)) ELSE Ret(PyNone)

\* insert_asset's helper clean_value(value, data_type)
clean_value(value, data_type) ==
    IF value \in Sentinels THEN Ret(PyNone)
    ELSE IF data_type = "float" THEN CatchValueType(PyFloatOf(value))
    ELSE IF data_type = "int" THEN CatchValueType(IntOfFloatOf(value))
    ELSE IF data_type = "date" THEN
        (IF Truthy(value) /\ value # PyStr(StrNone)
            THEN CatchValue(Strptime(value))
            ELSE Ret(PyNone))
    ELSE IF Truthy(value) THEN Ret(PyStrOf(value)) ELSE Ret(PyNone)

\* _map_alpha_vantage_to_asset's helper clean_numeric(value)
clean_numeric(value) ==
    IF value \in NumericSentinels THEN Ret(PyNone)
    ELSE CatchValueType(PyFloatOf(value))

\* _map_alpha_vantage_to_asset's helper clean_date(value)
clean_date(value) ==
    IF Truthy(value) /\ value # PyStr(StrNone)
        THEN CatchValue(Strptime(value))
        ELSE Ret(PyNone)

----------------------------------------------------------------------------
(* Raw values a provider payload or a mapped record can hold               *)

RawStrings ==
    { <<>>, StrNone, StrNA, StrDash,
      <<"1", "2", ".", "9">>, <<"-", "1", "2", ".", "9">>,
      <<"+", "0", "1", "2", ".", "9", "0">>, <<".", "5">>, <<"5", ".">>,
      <<"3", "0", "0", "0", "0", "0", "0", "0", "0", "0", "0", "0", "0">>,
      <<"-", "0", ".", "5">>, <<"1", "2", ".", "0">>,
      Two53, IncDigits(Two53), <<"-">> \o IncDigits(Two53),
      IncDigits(IncDigits(IncDigits(Two53))),
      <<"-", "0">>, <<"a", "b", "c">>, <<"1", ".", "2", ".", "3">>,
      <<"i", "n", "f">>, <<"-", "I", "n", "f", "i", "n", "i", "t", "y">>,
      <<"n", "a", "n">>,
      <<"2", "0", "2", "4", "-", "0", "1", "-", "1", "5">>,
      <<"2", "0", "2", "4", "-", "1", "-", "5">>,
      <<"2", "0", "2", "4", "-", "0", "2", "-", "2", "9">>,
      <<"2", "0", "2", "3", "-", "0", "2", "-", "2", "9">>,
      <<"2", "0", "2", "4", "-", "1", "3", "-", "0", "1">>,
      <<"0", "0", "0", "0", "-", "0", "1", "-", "0", "1">>,
      <<"2", "0", "2", "4", "/", "0", "1", "/", "1", "5">>,
      <<"2", "4", "-", "0", "1", "-", "1", "5">> }

RawValues ==
    {PyNone}
    \cup {PyStr(cs) : cs \in RawStrings}
    \cup { PyInt(FALSE, <<"0">>), PyInt(FALSE, <<"1", "2">>),
           PyInt(TRUE, <<"7">>),
           PyInt(FALSE, <<"2", "0", "2", "4", "0", "1", "1", "5">>),
           PyFloat(FALSE, <<"0">>, <<>>), PyFloat(FALSE, <<"1", "2">>, <<"9">>),
           PyFloat(TRUE, <<"1", "2">>, <<"9">>),
           PyInf(FALSE), PyInf(TRUE), PyNaN,
           PyDate(<<"2", "0", "2", "4", "-", "0", "1", "-", "1", "5">>) }

Kinds == {"float", "int", "date", "str"}

----------------------------------------------------------------------------
(* Dictionaries (provider payloads, asset records) are functions from the  *)
(* keys they hold to Python values.                                        *)

EmptyDict == [k \in {} |-> PyNone]

\* The function f with every entry evaluated once (f @@ EmptyDict = f).
Built(f) == f @@ EmptyDict

\* d.get(key) and d.get(key, default)
Get(d, k) == IF k \in DOMAIN d THEN d[k] ELSE PyNone
GetOr(d, k, default) == IF k \in DOMAIN d THEN d[k] ELSE default

Chars(str) ==
    CASE str = "USD" -> <<"U", "S", "D">>
      [] str = "Stock" -> <<"S", "t", "o", "c", "k">>
      [] str = "ETF" -> <<"E", "T", "F">>
      [] str = "AAPL" -> <<"A", "A", "P", "L">>
      [] str = "SPY" -> <<"S", "P", "Y">>
      [] str = "spy" -> <<"s", "p", "y">>
      [] str = "MSFT" -> <<"M", "S", "F", "T">>
      [] str = "Apple" -> <<"A", "p", "p", "l", "e">>
      [] str = "Tech" -> <<"T", "e", "c", "h">>
      [] str = "Fin" -> <<"F", "i", "n">>
      [] str = "Realized" -> <<"R", "e", "a", "l", "i", "z", "e", "d">>
      [] str = "FEDFUNDS" -> <<"F", "E", "D", "F", "U", "N", "D", "S">>
      [] str = "UNRATE" -> <<"U", "N", "R", "A", "T", "E">>
      [] str = "CPIAUCSL" -> <<"C", "P", "I", "A", "U", "C", "S", "L">>
      [] str = "GDP" -> <<"G", "D", "P">>
      [] str = "GS10" -> <<"G", "S", "1", "0">>
      [] str = "DGS2" -> <<"D", "G", "S", "2">>
      [] str = "VIXCLS" -> <<"V", "I", "X", "C", "L", "S">>
      [] str = "UMCSENT" -> <<"U", "M", "C", "S", "E", "N", "T">>
      [] str = "" -> <<>>

Text(str) == PyStr(Chars(str))

----------------------------------------------------------------------------
(* Persistence Layer: table assets                                         *)

\* The columns of the INSERT OR REPLACE INTO assets statement, in its order, each
\* with the asset_data key bound to it and how insert_asset converts it.
AssetColumns ==
    << <<"symbol", "Symbol", "text">>, <<"name", "Name", "text">>,
       <<"description", "Description", "text">>, <<"cik", "CIK", "text">>,
       <<"exchange", "Exchange", "text">>, <<"currency", "Currency", "text">>,
       <<"country", "Country", "text">>, <<"sector", "Sector", "text">>,
       <<"industry", "Industry", "text">>, <<"asset_type", "AssetType", "text">>,
       <<"market_capitalization", "MarketCapitalization", "int">>,
       <<"ebitda", "EBITDA", "int">>, <<"pe_ratio", "PERatio", "float">>,
       <<"peg_ratio", "PEGRatio", "float">>, <<"book_value", "BookValue", "float">>,
       <<"dividend_per_share", "DividendPerShare", "float">>,
       <<"dividend_yield", "DividendYield", "float">>, <<"eps", "EPS", "float">>,
       <<"revenue_per_share_ttm", "RevenuePerShareTTM", "float">>,
       <<"profit_margin", "ProfitMargin", "float">>,
       <<"operating_margin_ttm", "OperatingMarginTTM", "float">>,
       <<"return_on_assets_ttm", "ReturnOnAssetsTTM", "float">>,
       <<"return_on_equity_ttm", "ReturnOnEquityTTM", "float">>,
       <<"revenue_ttm", "RevenueTTM", "int">>,
       <<"gross_profit_ttm", "GrossProfitTTM", "int">>,
       <<"diluted_eps_ttm", "DilutedEPSTTM", "float">>,
       <<"quarterly_earnings_growth_yoy", "QuarterlyEarningsGrowthYOY", "float">>,
       <<"quarterly_revenue_growth_yoy", "QuarterlyRevenueGrowthYOY", "float">>,
       <<"analyst_target_price", "AnalystTargetPrice", "float">>,
       <<"trailing_pe", "TrailingPE", "float">>, <<"forward_pe", "ForwardPE", "float">>,
       <<"price_to_sales_ratio_ttm", "PriceToSalesRatioTTM", "float">>,
       <<"price_to_book_ratio", "PriceToBookRatio", "float">>,
       <<"ev_to_revenue", "EVToRevenue", "float">>,
       <<"ev_to_ebitda", "EVToEBITDA", "float">>, <<"beta", "Beta", "float">>,
       <<"week_52_high", "52WeekHigh", "float">>,
       <<"week_52_low", "52WeekLow", "float">>,
       <<"day_50_moving_average", "50DayMovingAverage", "float">>,
       <<"day_200_moving_average", "200DayMovingAverage", "float">>,
       <<"shares_outstanding", "SharesOutstanding", "int">>,
       <<"dividend_date", "DividendDate", "date">>,
       <<"ex_dividend_date", "ExDividendDate", "date">> >>

AssetColumnNames == {AssetColumns[i][1] : i \in 1..Len(AssetColumns)}

\* The columns insert_asset passes through clean_value: the fundamentals.
FundamentalColumns ==
    {AssetColumns[i][1] : i \in {j \in 1..Len(AssetColumns) : AssetColumns[j][3] # "text"}}

\* What sqlite3 stores for a bound parameter: None and NaN become NULL, a date
\* becomes its ISO text, every other value is stored as it is.
DbBind(v) ==
    IF IsNaN(v) THEN PyNone
    ELSE IF v.t = "date" THEN PyStr(v.s)
    ELSE v

\* The i-th element of insert_asset's values tuple.
AssetValue(asset_data, i) ==
    LET key == AssetColumns[i][2]
        kind == AssetColumns[i][3]
    IN  IF kind = "text" THEN
            Ret(IF key = "Currency" THEN GetOr(asset_data, key, Text("USD"))
                ELSE IF key = "AssetType" THEN GetOr(asset_data, key, Text("Stock"))
                ELSE Get(asset_data, key))
        ELSE clean_value(Get(asset_data, key), kind)

\* The schema's default for assets.is_active, a column the INSERT leaves out.
IsActiveDefault == PyInt(FALSE, <<"1">>)

\* The natural key of table assets (its UNIQUE constraint).
AssetsKey == {"symbol"}

\* Two rows conflict on a key when they agree on it and no key column is NULL.
KeyConflict(r1, r2, key) == \A c \in key : r1[c] = r2[c] /\ r1[c] # PyNone

\* INSERT OR REPLACE: the rows that conflict with the new one are deleted first.
InsertOrReplace(table, row, key) ==
    {r \in table : ~KeyConflict(r, row, key)} \cup {row}

Min(S) == CHOOSE x \in S : \A y \in S : x <= y

ColumnIndex(c) == CHOOSE i \in 1..Len(AssetColumns) : AssetColumns[i][1] = c

\* The state of the storage behind a FinancialDatabase: the connection is open
\* and the schema's tables exist (healthy); the tables exist but every write
\* is rejected with an sqlite3.Error (write_fails); the schema was never
\* created (no_schema: every statement on a table is rejected with an
\* sqlite3.OperationalError); the connection could not be opened
\* (no_connection: connect() printed the error and self.connection is None).
Healthy == "healthy"
StorageStates == {"healthy", "write_fails", "no_schema", "no_connection"}

\* An insert_asset whose failure also loses the rows stored before it.
insert_asset_clearing(table, asset_data, storage) ==
    LET values == Built([i \in 1..Len(AssetColumns) |-> AssetValue(asset_data, i)])
        raising == {i \in 1..Len(AssetColumns) : values[i].exc # "none"}
        row == Built([c \in AssetColumnNames \cup {"is_active"} |->
                        IF c = "is_active" THEN IsActiveDefault
                        ELSE DbBind(values[ColumnIndex(c)].val)])
    IN  IF storage = "no_connection"
            THEN [exc |-> "AttributeError", outcome |-> "raised", table |-> {}]
        ELSE IF raising # {}
            THEN [exc |-> values[Min(raising)].exc, outcome |-> "raised", table |-> {}]
        ELSE IF storage # Healthy
            THEN [exc |-> "none", outcome |-> "sqlite_error", table |-> {}]
        ELSE [exc |-> "none", outcome |-> "committed",
              table |-> InsertOrReplace(table, row, AssetsKey)]

\* FinancialDatabase.insert_asset(asset_data) on the table `table`. Without a
\* connection, self.connection.cursor() raises AttributeError before the try
\* block. The values tuple is built left to right, so the first clean_value
\* that raises ends the call with its exception (the handler catches
\* sqlite3.Error only). A statement the storage rejects raises an
\* sqlite3.Error, which is caught and printed. Otherwise the row is written
\* and committed.
insert_asset(table, asset_data, storage) ==
    LET values == Built([i \in 1..Len(AssetColumns) |-> AssetValue(asset_data, i)])
        raising == {i \in 1..Len(AssetColumns) : values[i].exc # "none"}
        row == Built([c \in AssetColumnNames \cup {"is_active"} |->
                        IF c = "is_active" THEN IsActiveDefault
                        ELSE DbBind(values[ColumnIndex(c)].val)])
    IN  IF storage = "no_connection"
            THEN [exc |-> "AttributeError", outcome |-> "raised", table |-> table]
        ELSE IF raising # {}
            THEN [exc |-> values[Min(raising)].exc, outcome |-> "raised", table |-> table]
        ELSE IF storage # Healthy
            THEN [exc |-> "none", outcome |-> "sqlite_error", table |-> table]
        ELSE [exc |-> "none", outcome |-> "committed",
              table |-> InsertOrReplace(table, row, AssetsKey)]

----------------------------------------------------------------------------
(* Canonical Record Mapper                                                 *)

AssetKeys == {AssetColumns[i][2] : i \in 1..Len(AssetColumns)}

KeyIndex(k) == CHOOSE i \in 1..Len(AssetColumns) : AssetColumns[i][2] = k

\* One entry of the dictionary _map_alpha_vantage_to_asset builds.
AlphaVantageField(overview_data, asset_type, k) ==
    LET kind == AssetColumns[KeyIndex(k)][3]
    IN  IF kind = "text" THEN
            Ret(IF k = "Currency" THEN GetOr(overview_data, k, Text("USD"))
                ELSE IF k = "AssetType" THEN GetOr(overview_data, k, asset_type)
                ELSE Get(overview_data, k))
        ELSE IF kind = "date" THEN clean_date(Get(overview_data, k))
        ELSE clean_numeric(Get(overview_data, k))

\* FinancialDataPipeline._map_alpha_vantage_to_asset(overview_data, asset_type):
\* the mapped dictionary, or the exception of the first entry that raises.
map_alpha_vantage_to_asset(overview_data, asset_type) ==
    LET ent == Built([k \in AssetKeys |-> AlphaVantageField(overview_data, asset_type, k)])
        raising == {i \in 1..Len(AssetColumns) : ent[AssetColumns[i][2]].exc # "none"}
    IN  IF raising # {}
            THEN [exc |-> ent[AssetColumns[Min(raising)][2]].exc, val |-> EmptyDict]
        ELSE [exc |-> "none", val |-> Built([k \in AssetKeys |-> ent[k].val])]

\* The entries of _map_yfinance_to_asset that are read from info without a
\* default: asset key -> info key.
YfinancePlain ==
    ("MarketCapitalization" :> "marketCap") @@ ("PERatio" :> "trailingPE")
    @@ ("BookValue" :> "bookValue") @@ ("DividendYield" :> "dividendYield")
    @@ ("EPS" :> "trailingEps") @@ ("Beta" :> "beta")
    @@ ("52WeekHigh" :> "fiftyTwoWeekHigh") @@ ("52WeekLow" :> "fiftyTwoWeekLow")
    @@ ("50DayMovingAverage" :> "fiftyDayAverage")
    @@ ("200DayMovingAverage" :> "twoHundredDayAverage")
    @@ ("SharesOutstanding" :> "sharesOutstanding")

\* The entries read with the default '': asset key -> info key.
YfinanceText ==
    ("Description" :> "longBusinessSummary") @@ ("Exchange" :> "exchange")
    @@ ("Country" :> "country") @@ ("Sector" :> "sector")
    @@ ("Industry" :> "industry")

\* A secondary mapping that keeps nothing of the payload.
map_yfinance_ignoring_info(symbol, info, asset_type) ==
    ("Symbol" :> symbol) @@ ("Name" :> symbol) @@ ("AssetType" :> asset_type)
    @@ ("Currency" :> Text("USD"))

\* FinancialDataPipeline._map_yfinance_to_asset(symbol, info, asset_type)
map_yfinance_to_asset(symbol, info, asset_type) ==
    Built([k \in {"Symbol", "Name", "Currency", "AssetType"}
                \cup DOMAIN YfinanceText \cup DOMAIN YfinancePlain |->
            CASE k = "Symbol" -> symbol
              [] k = "Name" -> GetOr(info, "longName", symbol)
              [] k = "Currency" -> GetOr(info, "currency", Text("USD"))
              [] k = "AssetType" -> asset_type
              [] k \in DOMAIN YfinanceText -> GetOr(info, YfinanceText[k], Text(""))
              [] OTHER -> Get(info, YfinancePlain[k])])

\* A minimal record that leaves the asset type out.
create_minimal_asset_untyped(symbol, asset_type) ==
    ("Symbol" :> symbol) @@ ("Name" :> symbol) @@ ("Currency" :> Text("USD"))

\* FinancialDataPipeline._create_minimal_asset(symbol, asset_type)
create_minimal_asset(symbol, asset_type) ==
    ("Symbol" :> symbol) @@ ("Name" :> symbol) @@ ("AssetType" :> asset_type)
    @@ ("Currency" :> Text("USD"))

----------------------------------------------------------------------------
(* Persistence Layer: table daily_prices                                   *)
(* A pandas DataFrame is [index, columns, rows]: the name of its index     *)
(* ("None" for a plain range index), its column names, and its rows, each  *)
(* a function from the column names (and the index name) to values.        *)

NewName(mapping, c) == IF c \in DOMAIN mapping THEN mapping[c] ELSE c

\* DataFrame.rename(columns=mapping)
Rename(df, mapping) ==
    LET cols == {NewName(mapping, c) : c \in df.columns}
        old(c2) == CHOOSE c \in df.columns : NewName(mapping, c) = c2
    IN  [df EXCEPT !.columns = cols,
                   !.rows = [i \in DOMAIN df.rows |->
                                [c2 \in cols \cup (DOMAIN df.rows[i] \ df.columns) |->
                                    IF c2 \in cols THEN df.rows[i][old(c2)]
                                    ELSE df.rows[i][c2]]]]

\* df[column] = value
WithColumn(df, column, value) ==
    [df EXCEPT !.columns = @ \cup {column},
               !.rows = [i \in DOMAIN df.rows |->
                            [c \in DOMAIN df.rows[i] \cup {column} |->
                                IF c = column THEN value ELSE df.rows[i][c]]]]

\* DataFrame.reset_index(): the index becomes a column of its name.
ResetIndex(df) == [df EXCEPT !.index = "None", !.columns = @ \cup {df.index}]

\* df.index.name == 'Date' or 'date' in str(df.index.name).lower(), for the index
\* names of the modelled frames ("Date", "Datetime" and none).
IndexIsDate(df) == df.index \in {"Date", "Datetime"}

\* column_mapping of insert_daily_prices
ColumnMapping ==
    ("Open" :> "open_price") @@ ("High" :> "high_price") @@ ("Low" :> "low_price")
    @@ ("Close" :> "close_price") @@ ("Adj Close" :> "adjusted_close")
    @@ ("Volume" :> "volume")

\* required_cols of insert_daily_prices
RequiredCols ==
    {"symbol", "date", "open_price", "high_price", "low_price", "close_price", "volume"}

\* The natural key of table daily_prices (its UNIQUE constraint).
DailyPricesKey == {"symbol", "date"}

\* The values pandas accepts for to_sql's parameter `method` besides a callable:
\* None (one INSERT per row) and 'multi'. Any other value makes SQLTable.insert
\* raise ValueError("Invalid parameter `method`").
PandasInsertMethods == {"None", "multi"}

\* The method insert_daily_prices passes to to_sql.
InsertMethod == "ignore"

\* DataFrame.to_sql(name, con, if_exists='append', index=False, method=...): a
\* plain INSERT of every row in one transaction, which a row that conflicts on
\* the table's key aborts with an IntegrityError.
to_sql(table, df, key, method) ==
    LET bound == [i \in DOMAIN df.rows |-> [c \in df.columns |-> DbBind(df.rows[i][c])]]
        clash == \/ \E i \in DOMAIN bound, q \in table : KeyConflict(bound[i], q, key)
                 \/ \E i, j \in DOMAIN bound :
                        i # j /\ KeyConflict(bound[i], bound[j], key)
    IN  IF method \notin PandasInsertMethods
            THEN [exc |-> "ValueError", table |-> table]
        ELSE IF clash THEN [exc |-> "IntegrityError", table |-> table]
        ELSE [exc |-> "none", table |-> table \cup {bound[i] : i \in DOMAIN bound}]

\* FinancialDatabase.insert_daily_prices(price_data, symbol) on the table `table`.
\* Every exception is caught and printed.
insert_daily_prices(table, price_data, symbol) ==
    LET df1 == IF Truthy(symbol) /\ "symbol" \notin price_data.columns
                  THEN WithColumn(price_data, "symbol", symbol) ELSE price_data
        df2 == IF IndexIsDate(df1)
                  THEN Rename(ResetIndex(df1), "Date" :> "date") ELSE df1
        df3 == Rename(df2, ColumnMapping)
        missing_cols == RequiredCols \ df3.columns
        w == to_sql(table, df3, DailyPricesKey, InsertMethod)
    IN  IF missing_cols # {}
            THEN [exc |-> "none", outcome |-> "missing_columns", table |-> table]
        ELSE IF w.exc # "none"
            THEN [exc |-> "none", outcome |-> w.exc, table |-> table]
        ELSE [exc |-> "none", outcome |-> "inserted", table |-> w.table]

----------------------------------------------------------------------------
(* Specification SpecCoerce: Field Coercion applied to every raw value     *)

NoCoerce == [fn |-> "none", value |-> PyNone, kind |-> "str", res |-> Ret(PyNone)]

SymbolValues == {Text("AAPL"), Text("SPY")}

AssetTypes == {Text("Stock"), Text("ETF")}

NoDbCall ==
    [op |-> "none", outcome |-> "none", exc |-> "none", symbol |-> PyNone,
     frame |-> "none", bars |-> <<>>, records |-> <<>>]

\* sqlite3.connect(db_path): no transaction is open. `pending` lists the
\* statements executed and not yet committed, `leaked` those of them that a
\* failed call left behind and a later commit made permanent, `writes` the
\* number of write calls so far.
NoTransaction == [pending |-> <<>>, leaked |-> <<>>, writes |-> 0]

NoAssetCalls ==
    [s \in SymbolValues \cup {Text("spy")} |->
        [called |-> FALSE, outcome |-> "none", data |-> EmptyDict]]

\* An optional dictionary: a provider's payload, or None.
NoData == [some |-> FALSE, d |-> EmptyDict]
Some(d) == [some |-> TRUE, d |-> d]

\* A provider's answer to one request: an exception, or a payload.
Failed == [exc |-> TRUE, data |-> EmptyDict]
Answer(d) == [exc |-> FALSE, data |-> d]

NoResolve ==
    [called |-> FALSE, symbol |-> PyNone, asset_type |-> PyNone, has_key |-> FALSE,
     overview |-> Failed, info |-> Failed, history |-> <<>>,
     overview_data |-> NoData, asset_outcome |-> "none", source |-> "none", exc |-> "none", success |-> FALSE, calls |-> <<>>]

\* The last update_sector_performance call: its day, the assets table it read,
\* whether the call before it ran on the same day (again) and read the same
\* assets table (same_assets), and whether it changed sector_performance.
NoSectorRun ==
    [called |-> FALSE, day |-> 0, today |-> PyNone, assets |-> {},
     again |-> FALSE, same_assets |-> FALSE, changed |-> FALSE]

NoVol == [called |-> FALSE, window |-> 0, closes |-> <<>>, rows |-> <<>>]

\* No batch run in progress; a pipeline is constructed with both API keys on
\* a healthy storage unless the run says otherwise.
NoBatch ==
    [runner |-> "none", pc |-> "idle", items |-> <<>>, delay |-> 0,
     include_economic_data |-> FALSE, include_volatility |-> FALSE, i |-> 0,
     log |-> <<>>, successful |-> 0, results |-> EmptyDict, exc |-> "none",
     storage |-> "healthy", av_key |-> TRUE, fred_key |-> TRUE,
     fred |-> EmptyDict]

CallCleanValue ==
    /\ \E v \in RawValues, k \in Kinds :
          coerce' = [fn |-> "clean_value", value |-> v, kind |-> k,
                     res |-> clean_value(v, k)]
    /\ UNCHANGED <<dbVars, callVars, runVars, sectorVars, vol, batch, connection>>

CallCleanNumeric ==
    /\ \E v \in RawValues :
          coerce' = [fn |-> "clean_numeric", value |-> v, kind |-> "float",
                     res |-> clean_numeric(v)]
    /\ UNCHANGED <<dbVars, callVars, runVars, sectorVars, vol, batch, connection>>

CallCleanDate ==
    /\ \E v \in RawValues :
          coerce' = [fn |-> "clean_date", value |-> v, kind |-> "date",
                     res |-> clean_date(v)]
    /\ UNCHANGED <<dbVars, callVars, runVars, sectorVars, vol, batch, connection>>

InitCoerce ==
    /\ coerce = NoCoerce
    /\ assets = {}
    /\ daily_prices = {}
    /\ economic_indicators = {}
    /\ volatility_data = {}
    /\ dbcall = NoDbCall
    /\ lastAsset = NoAssetCalls
    /\ resolve = NoResolve
    /\ sector_performance = {}
    /\ sector_run = NoSectorRun
    /\ vol = NoVol
    /\ batch = NoBatch
    /\ connection = NoTransaction

NextCoerce == CallCleanValue \/ CallCleanNumeric \/ CallCleanDate

SpecCoerce == InitCoerce /\ [][NextCoerce]_vars

\* The sentinel inputs of the coercion contract: "", "None", "N/A", "-" and null.
SentinelInputs ==
    { PyStr(<<>>), PyStr(<<"N", "o", "n", "e">>), PyStr(<<"N", "/", "A">>),
      PyStr(<<"-">>), PyNone }

\* C5: every sentinel input ("", "None", "N/A", "-", null) is coerced to null by
\* clean_value for each of the kinds float, int, date and str, by clean_numeric
\* and by clean_date, without an exception.
C5_SentinelsCoerceToNull ==
    (coerce.fn # "none" /\ coerce.value \in SentinelInputs)
        => (coerce.res.exc = "none" /\ coerce.res.val.t = "NoneType")

\* C5's cases: the sentinel "N/A" through clean_date, which reaches strptime, and
\* the sentinel "-" through clean_value as a str.
C5_Witness ==
    \/ /\ coerce.fn = "clean_date" /\ coerce.value = PyStr(<<"N", "/", "A">>)
       /\ coerce.res.val.t = "NoneType"
    \/ /\ coerce.fn = "clean_value" /\ coerce.kind = "str"
       /\ coerce.value = PyStr(<<"-">>) /\ coerce.res.val.t = "NoneType"

\* C6: Field Coercion is total: for every raw input and every target kind
\* clean_value, clean_numeric and clean_date return a value or null and raise
\* nothing.
C6_CoercionNeverRaises == coerce.res.exc = "none"

\* The string is a well-formed decimal number: an optional sign, digits with at
\* most one decimal point, and at least one digit.
Sign(cs) == IF cs # <<>> /\ cs[1] \in {"+", "-"} THEN <<cs[1]>> ELSE <<>>
Unsigned(cs) == SubSeq(cs, Len(Sign(cs)) + 1, Len(cs))
DigitsIn(cs) == SelectSeq(Unsigned(cs), LAMBDA c : c # ".")
WellFormedNumber(v) ==
    /\ v.t = "str"
    /\ DigitsIn(v.s) # <<>> /\ AllDigits(DigitsIn(v.s))
    /\ Len(Unsigned(v.s)) - Len(DigitsIn(v.s)) <= 1

\* The digits of the string before and after its decimal point.
RECURSIVE Before(_)
Before(cs) == IF cs = <<>> \/ cs[1] = "." THEN <<>> ELSE <<cs[1]>> \o Before(Tail(cs))
IntegerDigits(cs) == StripLeadingZeros(Before(Unsigned(cs)))
FractionDigits(cs) ==
    StripTrailingZeros(SubSeq(Unsigned(cs), Len(Before(Unsigned(cs))) + 2,
                              Len(Unsigned(cs))))

\* The integer part of the number the string denotes, and the number itself.
IntegerPart(cs) ==
    PyInt(Sign(cs) = <<"-">> /\ IntegerDigits(cs) # <<"0">>, IntegerDigits(cs))
NumberOf(cs) ==
    PyFloat(Sign(cs) = <<"-">> /\ ~(IntegerDigits(cs) = <<"0">> /\ FractionDigits(cs) = <<>>),
            IntegerDigits(cs), FractionDigits(cs))

\* clean_value was called on a well-formed number and returned as the claim
\* says: the integer part for an int, the number for a float.
CoercedAsDenoted ==
    /\ coerce.res.exc = "none"
    /\ coerce.kind = "int" => coerce.res.val = IntegerPart(coerce.value.s)
    /\ coerce.kind = "float" => coerce.res.val = NumberOf(coerce.value.s)

\* C22 as stated: for every well-formed numeric string s, clean_value(s, 'int')
\* is the integer part of the number s denotes and clean_value(s, 'float') is
\* that number.
C22_IntTruncatesEveryNumber ==
    (/\ coerce.fn = "clean_value" /\ coerce.kind \in {"int", "float"}
     /\ WellFormedNumber(coerce.value)) => CoercedAsDenoted

\* C22, for the strings a float can hold: for every well-formed numeric string
\* s of at most 15 digits, clean_value(s, 'int') is the integer part of the
\* number s denotes, truncated toward zero, and clean_value(s, 'float') is that
\* number.
C22_IntTruncatesFloat ==
    (/\ coerce.fn = "clean_value" /\ coerce.kind \in {"int", "float"}
     /\ WellFormedNumber(coerce.value)
     /\ Len(DigitsIn(coerce.value.s)) <= 15) => CoercedAsDenoted

\* "-12.9" was coerced to an int and gave -12.
C22_Witness ==
    /\ coerce.fn = "clean_value" /\ coerce.kind = "int"
    /\ coerce.value = PyStr(<<"-", "1", "2", ".", "9">>)
    /\ coerce.res = Ret(PyInt(TRUE, <<"1", "2">>))

----------------------------------------------------------------------------
(* Provider payloads                                                       *)

Str3T == <<"3", "0", "0", "0", "0", "0", "0", "0", "0", "0", "0", "0", "0">>
Str12_9 == <<"1", "2", ".", "9">>
StrDate == <<"2", "0", "2", "4", "-", "0", "1", "-", "1", "5">>
StrInfinity == <<"I", "n", "f", "i", "n", "i", "t", "y">>

\* An Alpha Vantage OVERVIEW response for `sym`: every value is a JSON string,
\* "None" and "-" standing for a missing value.
AVOverview(sym, cap, pe, divdate) ==
    ("Symbol" :> sym) @@ ("Name" :> Text("Apple")) @@ ("Sector" :> Text("Tech"))
    @@ ("MarketCapitalization" :> cap) @@ ("PERatio" :> pe)
    @@ ("DividendDate" :> divdate)

AVOverviews(sym) ==
    { AVOverview(sym, f[1], f[2], dd) :
        f \in {<<PyStr(Str3T), PyStr(Str12_9)>>, <<PyStr(StrNone), PyStr(StrDash)>>},
        dd \in {PyStr(StrDate), PyStr(StrNone)} }

\* An OVERVIEW response whose DividendDate is a JSON number, not a string.
AVMalformed(sym) ==
    AVOverview(sym, PyStr(Str3T), PyStr(Str12_9),
               PyInt(FALSE, <<"2", "0", "2", "4", "0", "1", "1", "5">>))

\* yfinance Ticker.info dictionaries: numbers, None, and the string 'Infinity'
\* Yahoo sends for an unbounded ratio; the last is what an unknown ticker gets.
YFInfos ==
    { ("longName" :> Text("Apple")) @@ ("sector" :> Text("Fin"))
        @@ ("marketCap" :> PyInt(FALSE, <<"3", "0", "0", "0">>)) @@ ("trailingPE" :> pe) :
        pe \in {PyFloat(FALSE, <<"1", "2">>, <<"9">>), PyStr(StrInfinity)} }
    \cup { ("trailingPegRatio" :> PyNone) }

\* The records insert_asset is called with: the three mappers' results (main
\* pipeline) and a raw OVERVIEW response (main.py).
AssetRecords ==
    Built([sym \in SymbolValues |->
        { map_alpha_vantage_to_asset(o, Text("Stock")).val : o \in AVOverviews(sym) }
        \cup AVOverviews(sym)
        \cup { map_yfinance_to_asset(sym, i, Text("ETF")) : i \in YFInfos }
        \cup { create_minimal_asset(sym, ty) : ty \in AssetTypes }])

----------------------------------------------------------------------------
(* Specification SpecAssets: any sequence of insert_asset calls on a       *)
(* storage that accepts every statement                                    *)

InsertAsset ==
    /\ \E sym \in SymbolValues : \E d \in AssetRecords[sym] :
          \E r \in {insert_asset(assets, d, Healthy)} :
              /\ assets' = r.table
              /\ dbcall' = [op |-> "insert_asset", outcome |-> r.outcome, exc |-> r.exc,
                            symbol |-> sym, frame |-> "none", bars |-> <<>>,
                            records |-> <<>>]
              /\ lastAsset' = [lastAsset EXCEPT ![sym] =
                                  [called |-> TRUE, outcome |-> r.outcome, data |-> d]]
    /\ UNCHANGED <<coerce, daily_prices, macroVars, runVars, sectorVars, vol, batch, connection>>

InitAssets ==
    /\ coerce = NoCoerce
    /\ assets = {}
    /\ daily_prices = {}
    /\ economic_indicators = {}
    /\ volatility_data = {}
    /\ dbcall = NoDbCall
    /\ lastAsset = NoAssetCalls
    /\ resolve = NoResolve
    /\ sector_performance = {}
    /\ sector_run = NoSectorRun
    /\ vol = NoVol
    /\ batch = NoBatch
    /\ connection = NoTransaction

NextAssets == InsertAsset

SpecAssets == InitAssets /\ [][NextAssets]_vars

RowsOf(table, sym) == {r \in table : r["symbol"] = sym}

\* C1: after any sequence of insert_asset calls the table holds exactly one row
\* for each symbol that was inserted, and that row carries the latest call's
\* values: its text fields as given, and NULL in every fundamental the latest
\* call's record does not hold.
C1_LastWriteWins ==
    \A sym \in SymbolValues :
        lastAsset[sym].called =>
            /\ Cardinality(RowsOf(assets, sym)) = 1
            /\ \A r \in RowsOf(assets, sym) :
                  /\ r["name"] = Get(lastAsset[sym].data, "Name")
                  /\ r["sector"] = Get(lastAsset[sym].data, "Sector")
                  /\ \A i \in 1..Len(AssetColumns) :
                        (/\ AssetColumns[i][3] # "text"
                         /\ AssetColumns[i][2] \notin DOMAIN lastAsset[sym].data)
                            => r[AssetColumns[i][1]] = PyNone

----------------------------------------------------------------------------
(* Specification SpecPrices: any sequence of insert_daily_prices calls     *)

MaxBars == 3

PriceDates == <<"2024-01-15", "2024-01-16", "2024-01-17">>

DateChars(d) ==
    CASE d = "2024-01-15" -> <<"2", "0", "2", "4", "-", "0", "1", "-", "1", "5">>
      [] d = "2024-01-16" -> <<"2", "0", "2", "4", "-", "0", "1", "-", "1", "6">>
      [] d = "2024-01-17" -> <<"2", "0", "2", "4", "-", "0", "1", "-", "1", "7">>

Closes == {PyFloat(FALSE, <<"1", "0">>, <<"5">>), PyFloat(FALSE, <<"1", "1">>, <<>>)}

\* A price history: bars <<date, close>> on strictly increasing trading days.
BarSeqs ==
    { b \in UNION { [1..n -> (1..Len(PriceDates)) \X Closes] : n \in 1..MaxBars } :
        \A i \in 1..(Len(b) - 1) : b[i][1] < b[i + 1][1] }

\* The ISO characters of the k-th day of the modelled calendar, which starts on
\* 2024-01-15 (PriceDates[k], for the days PriceDates lists).
DayChars(k) ==
    IF k <= 17
        THEN <<"2", "0", "2", "4", "-", "0", "1", "-">> \o Pad2(DigitsOf(14 + k))
        ELSE <<"2", "0", "2", "4", "-", "0", "2", "-">> \o Pad2(DigitsOf(k - 17))

BarDate(bar) == PyDate(DayChars(bar[1]))

Volume == PyInt(FALSE, <<"9", "0", "0">>)

\* yfinance Ticker.history(): indexed by Date, provider column names.
HistoryFrame(bars) ==
    [index |-> "Date",
     columns |-> {"Open", "High", "Low", "Close", "Volume"},
     rows |-> [i \in 1..Len(bars) |->
                 ("Date" :> BarDate(bars[i])) @@ ("Open" :> bars[i][2])
                 @@ ("High" :> bars[i][2]) @@ ("Low" :> bars[i][2])
                 @@ ("Close" :> bars[i][2]) @@ ("Volume" :> Volume)]]

\* The same history without its Volume column.
PartialFrame(bars) ==
    [index |-> "Date",
     columns |-> {"Open", "High", "Low", "Close"},
     rows |-> [i \in 1..Len(bars) |->
                 ("Date" :> BarDate(bars[i])) @@ ("Open" :> bars[i][2])
                 @@ ("High" :> bars[i][2]) @@ ("Low" :> bars[i][2])
                 @@ ("Close" :> bars[i][2])]]

\* An optional DataFrame.
NoFrame == [some |-> FALSE, df |-> [index |-> "None", columns |-> {}, rows |-> <<>>]]

\* yfinance's answer to a history request: an exception, or bars (none for an
\* unknown ticker).
HistoryFailed == [exc |-> TRUE, bars |-> <<>>]
History(bars) == [exc |-> FALSE, bars |-> bars]

\* FinancialDataCollector.get_price_data_yfinance(symbol): None on an exception
\* or an empty history; otherwise the history with its index reset, the columns
\* renamed to the table's, the symbol added and adjusted_close copied from
\* close_price.
get_price_data_yfinance(symbol, response) ==
    LET hist == Rename(ResetIndex(HistoryFrame(response.bars)),
                       ("Date" :> "date") @@ ("Open" :> "open_price")
                       @@ ("High" :> "high_price") @@ ("Low" :> "low_price")
                       @@ ("Close" :> "close_price") @@ ("Volume" :> "volume"))
        withSymbol == WithColumn(hist, "symbol", symbol)
    IN  IF response.exc \/ response.bars = <<>> THEN NoFrame
        ELSE [some |-> TRUE,
              df |-> [withSymbol EXCEPT
                        !.columns = @ \cup {"adjusted_close"},
                        !.rows = [i \in DOMAIN @ |->
                                    @[i] @@ ("adjusted_close" :> @[i]["close_price"])]]]

FrameKinds == {"collected", "history", "partial"}

Frame(kind, symbol, bars) ==
    CASE kind = "collected" -> get_price_data_yfinance(symbol, History(bars)).df
      [] kind = "history" -> HistoryFrame(bars)
      [] kind = "partial" -> PartialFrame(bars)

InsertDailyPrices ==
    /\ \E sym \in SymbolValues, kind \in FrameKinds, bars \in BarSeqs :
          \E r \in {insert_daily_prices(daily_prices, Frame(kind, sym, bars), sym)} :
              /\ daily_prices' = r.table
              /\ dbcall' = [op |-> "insert_daily_prices", outcome |-> r.outcome,
                            exc |-> r.exc, symbol |-> sym, frame |-> kind,
                            bars |-> bars, records |-> <<>>]
    /\ UNCHANGED <<coerce, assets, macroVars, lastAsset, runVars, sectorVars, vol, batch, connection>>

InitPrices ==
    /\ coerce = NoCoerce
    /\ assets = {}
    /\ daily_prices = {}
    /\ economic_indicators = {}
    /\ volatility_data = {}
    /\ dbcall = NoDbCall
    /\ lastAsset = NoAssetCalls
    /\ resolve = NoResolve
    /\ sector_performance = {}
    /\ sector_run = NoSectorRun
    /\ vol = NoVol
    /\ batch = NoBatch
    /\ connection = NoTransaction

NextPrices == InsertDailyPrices

SpecPrices == InitPrices /\ [][NextPrices]_vars

\* C2: after an insert_daily_prices call with a frame that has every required
\* column, daily_prices holds exactly one row for each (symbol, date) of the
\* frame and that row carries the frame's values for it; and at all times no
\* two rows share a (symbol, date).
C2_PriceBarUpsert ==
    /\ \A r1, r2 \in daily_prices :
          (r1["symbol"] = r2["symbol"] /\ r1["date"] = r2["date"]) => r1 = r2
    /\ (dbcall.op = "insert_daily_prices" /\ dbcall.frame \in {"collected", "history"})
          => \A i \in 1..Len(dbcall.bars) :
                \E r \in daily_prices :
                    /\ r["symbol"] = dbcall.symbol
                    /\ r["date"] = PyStr(DateChars(PriceDates[dbcall.bars[i][1]]))
                    /\ r["close_price"] = dbcall.bars[i][2]

----------------------------------------------------------------------------
(* Source Resolver: collect_and_insert_asset                               *)

StrNote == <<"l", "i", "m", "i", "t">>

\* A fetcher that takes a response with a 'Note' for a valid one.
get_asset_overview_alpha_vantage_unthrottled(has_key, response) ==
    IF ~has_key THEN NoData
    ELSE IF response.exc THEN NoData
    ELSE IF \/ "Symbol" \notin DOMAIN response.data
            \/ "Error Message" \in DOMAIN response.data THEN NoData
    ELSE Some(response.data)

\* FinancialDataCollector.get_asset_overview_alpha_vantage(symbol): None without
\* a key, on an exception, and on a response without 'Symbol' or with a 'Note'
\* or an 'Error Message'.
get_asset_overview_alpha_vantage(has_key, response) ==
    IF ~has_key THEN NoData
    ELSE IF response.exc THEN NoData
    ELSE IF \/ "Symbol" \notin DOMAIN response.data
            \/ "Note" \in DOMAIN response.data
            \/ "Error Message" \in DOMAIN response.data THEN NoData
    ELSE Some(response.data)

\* FinancialDataCollector.get_asset_info_yfinance(symbol): {} on an exception.
get_asset_info_yfinance(response) ==
    IF response.exc THEN EmptyDict ELSE response.data

\* The primary mapping with each null entry filled from the secondary mapping.
MergedAsset(primary, secondary) ==
    IF primary.exc # "none" THEN primary
    ELSE Ret([k \in DOMAIN primary.val |->
                IF primary.val[k] = PyNone /\ k \in DOMAIN secondary
                    THEN secondary[k] ELSE primary.val[k]])

\* A resolver that fills the gaps of the primary record from the secondary
\* payload instead of using the primary mapping exclusively.
collect_and_insert_asset_merging(storage, table, prices, symbol, asset_type, has_key, av, yf, hist) ==
    LET overview_data == get_asset_overview_alpha_vantage(has_key, av)
        yf_info == get_asset_info_yfinance(yf)
        source == IF overview_data.some /\ DOMAIN overview_data.d # {} THEN "primary"
                  ELSE IF DOMAIN yf_info # {} THEN "secondary"
                  ELSE "minimal"
        asset_data ==
            CASE source = "primary" ->
                    MergedAsset(map_alpha_vantage_to_asset(overview_data.d, asset_type),
                                map_yfinance_to_asset(symbol, yf_info, asset_type))
              [] source = "secondary" -> Ret(map_yfinance_to_asset(symbol, yf_info, asset_type))
              [] source = "minimal" -> Ret(create_minimal_asset(symbol, asset_type))
        ins == insert_asset(table, asset_data.val, storage)
        requests == (IF has_key THEN <<"alpha_vantage">> ELSE <<>>) \o <<"yfinance_info">>
        price_data == get_price_data_yfinance(symbol, hist)
        pr == insert_daily_prices(prices, price_data.df, symbol)
    IN  IF asset_data.exc # "none"
            THEN [exc |-> asset_data.exc, success |-> FALSE, source |-> source,
                  assets |-> table, daily_prices |-> prices,
                  asset_data |-> NoData, asset_outcome |-> "none",
                  calls |-> requests]
        ELSE [exc |-> "none",
              success |-> (ins.exc = "none") \/ price_data.some,
              source |-> source,
              assets |-> ins.table,
              daily_prices |-> IF price_data.some THEN pr.table ELSE prices,
              asset_data |-> Some(asset_data.val), asset_outcome |-> ins.outcome,
              calls |-> requests \o <<"insert_asset", "yfinance_history">>
                            \o (IF price_data.some THEN <<"insert_daily_prices">>
                                                     ELSE <<>>)]

\* FinancialDataPipeline.collect_and_insert_asset(symbol, asset_type) on the
\* tables `table` and `prices`, given what the three providers answer. Both
\* providers are asked before a source is chosen; a mapper's exception leaves the
\* method; insert_asset's is caught; either write that returns sets success.
\* `calls` lists the provider requests and the storage writes of the call in
\* their order; Alpha Vantage is requested only with a key.
collect_and_insert_asset(storage, table, prices, symbol, asset_type, has_key, av, yf, hist) ==
    LET overview_data == get_asset_overview_alpha_vantage(has_key, av)
        yf_info == get_asset_info_yfinance(yf)
        source == IF overview_data.some /\ DOMAIN overview_data.d # {} THEN "primary"
                  ELSE IF DOMAIN yf_info # {} THEN "secondary"
                  ELSE "minimal"
        asset_data ==
            CASE source = "primary" -> map_alpha_vantage_to_asset(overview_data.d, asset_type)
              [] source = "secondary" -> Ret(map_yfinance_to_asset(symbol, yf_info, asset_type))
              [] source = "minimal" -> Ret(create_minimal_asset(symbol, asset_type))
        ins == insert_asset(table, asset_data.val, storage)
        requests == (IF has_key THEN <<"alpha_vantage">> ELSE <<>>) \o <<"yfinance_info">>
        price_data == get_price_data_yfinance(symbol, hist)
        pr == insert_daily_prices(prices, price_data.df, symbol)
    IN  IF asset_data.exc # "none"
            THEN [exc |-> asset_data.exc, success |-> FALSE, source |-> source,
                  assets |-> table, daily_prices |-> prices,
                  asset_data |-> NoData, asset_outcome |-> "none",
                  calls |-> requests]
        ELSE [exc |-> "none",
              success |-> (ins.exc = "none") \/ price_data.some,
              source |-> source,
              assets |-> ins.table,
              daily_prices |-> IF price_data.some THEN pr.table ELSE prices,
              asset_data |-> Some(asset_data.val), asset_outcome |-> ins.outcome,
              calls |-> requests \o <<"insert_asset", "yfinance_history">>
                            \o (IF price_data.some THEN <<"insert_daily_prices">>
                                                     ELSE <<>>)]

\* The (symbol, asset_type) pairs the resolver is called with.
ResolveList == {<<Text("SPY"), Text("ETF")>>}

StrExDate == <<"2", "0", "2", "3", "-", "1", "1", "-", "1", "0">>

\* An OVERVIEW response with both of its dates.
AVComplete(sym) ==
    AVOverview(sym, PyStr(Str3T), PyStr(Str12_9), PyStr(StrDate))
    @@ ("ExDividendDate" :> PyStr(StrExDate))

\* What Alpha Vantage may answer for `sym`: an exception, a rate-limit note, an
\* error message, an empty object, an overview that carries a note, a complete
\* or a sparse overview, an overview with both dates, and an overview with a
\* numeric DividendDate.
AVResponses(sym) ==
    { Failed, Answer(EmptyDict), Answer("Note" :> PyStr(StrNote)),
      Answer("Error Message" :> PyStr(StrNote)),
      Answer(AVOverview(sym, PyStr(Str3T), PyStr(Str12_9), PyStr(StrNone))
             @@ ("Note" :> PyStr(StrNote))),
      Answer(AVOverview(sym, PyStr(Str3T), PyStr(Str12_9), PyStr(StrDate))),
      Answer(AVOverview(sym, PyStr(StrNone), PyStr(StrDash), PyStr(StrNone))),
      Answer(AVComplete(sym)),
      Answer(AVMalformed(sym)) }

\* Per symbol, the cases <<key configured, answer>> of the primary provider.
PrimaryCases ==
    Built([sym \in SymbolValues |->
        {<<FALSE, Failed>>} \cup {<<TRUE, r>> : r \in AVResponses(sym)}])

YFResponses == {Failed, Answer(EmptyDict)} \cup {Answer(i) : i \in YFInfos}

Histories ==
    { HistoryFailed, History(<<>>),
      History(<<<<1, PyFloat(FALSE, <<"1", "0">>, <<"5">>)>>>>) }

\* What a collect_and_insert_asset call with result r leaves in the tables and
\* in the call records.
Resolved(symbol, asset_type, has_key, av, yf, hist, r) ==
    /\ assets' = r.assets
    /\ daily_prices' = r.daily_prices
    /\ resolve' = [called |-> TRUE, symbol |-> symbol, asset_type |-> asset_type,
                   has_key |-> has_key, overview |-> av, info |-> yf,
                   history |-> hist.bars,
                   overview_data |-> get_asset_overview_alpha_vantage(has_key, av),
                   asset_outcome |-> r.asset_outcome,
                   source |-> r.source,
                   exc |-> r.exc, success |-> r.success, calls |-> r.calls]
    /\ lastAsset' = IF r.asset_data.some
                       THEN [lastAsset EXCEPT ![symbol] =
                                [called |-> TRUE, outcome |-> r.asset_outcome,
                                 data |-> r.asset_data.d]]
                       ELSE lastAsset

CollectAndInsertAsset ==
    /\ \E a \in ResolveList : \E p \in PrimaryCases[a[1]] :
       \E yf \in YFResponses, hist \in Histories :
          \E r \in {collect_and_insert_asset(Healthy, assets, daily_prices, a[1], a[2],
                                            p[1], p[2], yf, hist)} :
              Resolved(a[1], a[2], p[1], p[2], yf, hist, r)
    /\ UNCHANGED <<coerce, macroVars, dbcall, sectorVars, vol, batch, connection>>

InitResolve ==
    /\ coerce = NoCoerce
    /\ assets = {}
    /\ daily_prices = {}
    /\ economic_indicators = {}
    /\ volatility_data = {}
    /\ dbcall = NoDbCall
    /\ lastAsset = NoAssetCalls
    /\ resolve = NoResolve
    /\ sector_performance = {}
    /\ sector_run = NoSectorRun
    /\ vol = NoVol
    /\ batch = NoBatch
    /\ connection = NoTransaction

NextResolve == CollectAndInsertAsset

SpecResolve == InitResolve /\ [][NextResolve]_vars

\* The last call found the primary provider unavailable: no key, an exception,
\* or an answer without 'Symbol' or with a 'Note' or an 'Error Message'.
PrimaryUnavailable ==
    \/ ~resolve.has_key
    \/ resolve.overview.exc
    \/ "Symbol" \notin DOMAIN resolve.overview.data
    \/ "Note" \in DOMAIN resolve.overview.data
    \/ "Error Message" \in DOMAIN resolve.overview.data

\* The last call found the secondary provider unavailable: an exception or an
\* empty payload.
SecondaryUnavailable == resolve.info.exc \/ DOMAIN resolve.info.data = {}

\* C3: after collect_and_insert_asset found the primary provider unavailable and
\* got a non-empty payload from the secondary, the symbol has exactly one assets
\* row, and its name, description, sector, market cap and P/E are those of the
\* secondary payload (the symbol and '' where the payload has none), not the
\* minimal stub's.
C3_FallbackToSecondary ==
    (resolve.called /\ PrimaryUnavailable /\ ~SecondaryUnavailable) =>
        /\ Cardinality(RowsOf(assets, resolve.symbol)) = 1
        /\ \A r \in RowsOf(assets, resolve.symbol) :
              /\ r["name"] = GetOr(resolve.info.data, "longName", resolve.symbol)
              /\ r["description"] = GetOr(resolve.info.data, "longBusinessSummary", Text(""))
              /\ r["sector"] = GetOr(resolve.info.data, "sector", Text(""))
              /\ r["asset_type"] = resolve.asset_type
              /\ r["market_capitalization"] = Get(resolve.info.data, "marketCap")
              /\ r["pe_ratio"] =
                    IF Get(resolve.info.data, "trailingPE") = PyStr(StrInfinity)
                        THEN PyInf(FALSE)
                        ELSE Get(resolve.info.data, "trailingPE")

C3_Witness ==
    /\ resolve.called /\ resolve.has_key /\ resolve.overview.exc
    /\ ~resolve.info.exc
    /\ Get(resolve.info.data, "longName") = Text("Apple")
    /\ \E r \in assets :
          /\ r["symbol"] = resolve.symbol
          /\ r["name"] = Text("Apple")
          /\ r["sector"] = Text("Fin")
          /\ r["market_capitalization"] = PyInt(FALSE, <<"3", "0", "0", "0">>)

\* C4: after collect_and_insert_asset found both providers unavailable, the call
\* has raised nothing and the symbol has exactly one assets row, with the
\* requested asset type and NULL in every numeric and date fundamental.
C4_TotalFallback ==
    (resolve.called /\ PrimaryUnavailable /\ SecondaryUnavailable) =>
        /\ resolve.exc = "none"
        /\ Cardinality(RowsOf(assets, resolve.symbol)) = 1
        /\ \A r \in RowsOf(assets, resolve.symbol) :
              /\ r["asset_type"] = resolve.asset_type
              /\ \A c \in FundamentalColumns : r[c] = PyNone

C4_Witness ==
    /\ resolve.called /\ ~resolve.has_key /\ resolve.info.exc
    /\ resolve.exc = "none"
    /\ \E r \in assets :
          /\ r["symbol"] = resolve.symbol
          /\ r["asset_type"] = Text("ETF")
          /\ r["market_capitalization"] = PyNone
          /\ r["dividend_date"] = PyNone

\* C12: whatever the primary provider (a usable payload, an error or throttle
\* marker, no 'Symbol', an exception, no key) and the secondary provider (a
\* payload, an empty payload, an exception) answer, collect_and_insert_asset
\* raises nothing, has chosen one of the three mappings and has handed its
\* record to insert_asset.
C12_ResolverNeverRaises ==
    resolve.called =>
        /\ resolve.exc = "none"
        /\ resolve.source \in {"primary", "secondary", "minimal"}
        /\ lastAsset[resolve.symbol].called

\* C14: when the primary provider produced a usable payload and a record was
\* handed to insert_asset, the record is the primary mapping of that payload
\* alone: its name and sector are the payload's, and an entry the payload leaves
\* null stays null whatever the secondary payload holds for it; and the
\* secondary mapping is chosen only when the primary is unavailable.
C14_WholeRecordPrecedence ==
    resolve.called =>
        /\ (~PrimaryUnavailable /\ resolve.exc = "none") =>
              /\ resolve.source = "primary"
              /\ lastAsset[resolve.symbol].called
              /\ lastAsset[resolve.symbol].data =
                    map_alpha_vantage_to_asset(resolve.overview.data,
                                               resolve.asset_type).val
              /\ Get(lastAsset[resolve.symbol].data, "Name")
                    = Get(resolve.overview.data, "Name")
              /\ Get(lastAsset[resolve.symbol].data, "Sector")
                    = Get(resolve.overview.data, "Sector")
              /\ Get(resolve.overview.data, "MarketCapitalization") = PyStr(StrNone)
                    => Get(lastAsset[resolve.symbol].data, "MarketCapitalization") = PyNone
        /\ resolve.source = "secondary" => PrimaryUnavailable

C14_Witness ==
    /\ resolve.called /\ ~PrimaryUnavailable /\ resolve.exc = "none"
    /\ Get(resolve.overview.data, "MarketCapitalization") = PyStr(StrNone)
    /\ ~resolve.info.exc
    /\ Get(resolve.info.data, "marketCap") = PyInt(FALSE, <<"3", "0", "0", "0">>)
    /\ lastAsset[resolve.symbol].called
    /\ Get(lastAsset[resolve.symbol].data, "MarketCapitalization") = PyNone
    /\ Get(lastAsset[resolve.symbol].data, "Sector") = Text("Tech")

\* C15: get_asset_overview_alpha_vantage returns the response's payload exactly
\* when a key is configured, the request raised nothing, the response has a
\* 'Symbol' and has neither a 'Note' nor an 'Error Message'; otherwise it
\* returns None.
C15_PrimaryAcceptance ==
    resolve.called =>
        /\ resolve.overview_data.some <=>
              /\ resolve.has_key
              /\ ~resolve.overview.exc
              /\ "Symbol" \in DOMAIN resolve.overview.data
              /\ "Note" \notin DOMAIN resolve.overview.data
              /\ "Error Message" \notin DOMAIN resolve.overview.data
        /\ resolve.overview_data.some => resolve.overview_data.d = resolve.overview.data
        /\ ~resolve.overview_data.some => resolve.overview_data = NoData

\* An overview with a 'Symbol' and a 'Note' was answered, and was a miss.
C15_Witness ==
    /\ resolve.called /\ resolve.has_key /\ ~resolve.overview.exc
    /\ "Symbol" \in DOMAIN resolve.overview.data
    /\ "Note" \in DOMAIN resolve.overview.data
    /\ ~resolve.overview_data.some
    /\ resolve.source # "primary"

\* The value is a string in the form YYYY-MM-DD of a calendar day.
WellFormedDate(v) == v.t = "str" /\ Strptime(v).exc = "none"

\* C21: after collect_and_insert_asset got a usable primary payload whose
\* DividendDate and ExDividendDate are well-formed YYYY-MM-DD strings, the
\* symbol has an assets row with the payload's name, sector, market
\* capitalization and P/E and with those two dates.
C21_CompletePrimaryPersisted ==
    (/\ resolve.called /\ ~PrimaryUnavailable
     /\ WellFormedDate(Get(resolve.overview.data, "DividendDate"))
     /\ WellFormedDate(Get(resolve.overview.data, "ExDividendDate"))) =>
        \E r \in RowsOf(assets, resolve.symbol) :
            /\ r["name"] = Get(resolve.overview.data, "Name")
            /\ r["sector"] = Get(resolve.overview.data, "Sector")
            /\ r["market_capitalization"] # PyNone
            /\ r["pe_ratio"] # PyNone
            /\ r["dividend_date"] = Get(resolve.overview.data, "DividendDate")
            /\ r["ex_dividend_date"] = Get(resolve.overview.data, "ExDividendDate")

\* The symbol as the primary provider lists it: in upper case, whatever the
\* spelling of the request.
Listed(symbol) == IF symbol = Text("spy") THEN Text("SPY") ELSE symbol

\* The calls of SpecListing: the fund, asked for in lower case.
ListedRequests == {<<Text("spy"), Text("ETF")>>}

\* pipeline.collect_and_insert_asset(symbol, asset_type), the overview carrying
\* the provider's own spelling of the symbol.
CollectAndInsertListed ==
    /\ \E a \in ListedRequests : \E p \in PrimaryCases[Listed(a[1])] :
       \E yf \in YFResponses, hist \in Histories :
          \E r \in {collect_and_insert_asset(Healthy, assets, daily_prices, a[1], a[2],
                                            p[1], p[2], yf, hist)} :
              Resolved(a[1], a[2], p[1], p[2], yf, hist, r)
    /\ UNCHANGED <<coerce, macroVars, dbcall, sectorVars, vol, batch, connection>>

(* Specification SpecListing: any sequence of collect_and_insert_asset     *)
(* calls whose symbol is spelled in lower case                             *)
SpecListing == InitResolve /\ [][CollectAndInsertListed]_vars

\* C29: the record that collect_and_insert_asset hands to insert_asset, and the
\* assets row committed for it, carry the requested symbol, whichever source
\* the record was built from; the price rows of the call carry it too.
C29_KeyedByRequestedSymbol ==
    (resolve.called /\ resolve.asset_outcome = "committed") =>
        /\ Get(lastAsset[resolve.symbol].data, "Symbol") = resolve.symbol
        /\ RowsOf(assets, resolve.symbol) # {}

\* C27: a collect_and_insert_asset that returned True committed, during the
\* call, the assets row of its symbol or at least one daily_prices row of it.
C27_SuccessImpliesPersisted ==
    (resolve.called /\ resolve.success) =>
        \/ /\ resolve.asset_outcome = "committed"
           /\ RowsOf(assets, resolve.symbol) # {}
        \/ \E b \in daily_prices : b["symbol"] = resolve.symbol

\* C20: the secondary provider's quote info is requested only after the primary
\* attempt has missed; a call whose primary payload is usable makes no
\* yfinance info request.
C20_SecondaryOnlyAfterMiss ==
    (resolve.called /\ resolve.overview_data.some) =>
        \A i \in 1..Len(resolve.calls) : resolve.calls[i] # "yfinance_info"

----------------------------------------------------------------------------
(* Realized volatility                                                     *)

MaxWindow == 3

MaxVolBars == 5

\* A missing number (NaN) and the change from close a to close b, (b - a) / a.
NoReturn == [nan |-> TRUE, num |-> 0, den |-> 1]
Return(a, b) == [nan |-> FALSE, num |-> b - a, den |-> a]

\* Series.pct_change(): no value at the first position.
pct_change_from_zero(closes) ==
    [i \in 1..Len(closes) |->
        IF i = 1 THEN Return(1, 1) ELSE Return(closes[i - 1], closes[i])]

pct_change(closes) ==
    [i \in 1..Len(closes) |->
        IF i = 1 THEN NoReturn ELSE Return(closes[i - 1], closes[i])]

\* The annualized sample standard deviation of the observations obs, kept as
\* the observations it is computed from.
NoStd == [nan |-> TRUE, of |-> <<>>]
Std(obs) == [nan |-> FALSE, of |-> obs]

\* Series.rolling(window).std(): at each position the window's observations that
\* are numbers; a value needs `window` of them (min_periods defaults to the
\* window) and more than one (ddof = 1).
rolling_std(returns, window) ==
    [i \in 1..Len(returns) |->
        LET from == IF i - window + 1 < 1 THEN 1 ELSE i - window + 1
            obs == SelectSeq(SubSeq(returns, from, i), LAMBDA r : ~r.nan)
        IN  IF Len(obs) < window \/ Len(obs) < 2 THEN NoStd ELSE Std(obs)]

\* FinancialDataCollector.calculate_realized_volatility(price_data, window) for
\* the closes of `symbol` on consecutive trading days: the rows that dropna()
\* keeps, each with the 0-based position of its bar.
calculate_realized_volatility(symbol, closes, window) ==
    LET volatility == rolling_std(pct_change(closes), window)
        all == [i \in 1..Len(closes) |->
                    [symbol |-> symbol, date |-> i - 1,
                     volatility_value |-> volatility[i],
                     volatility_type |-> "Realized",
                     volatility_period |-> window]]
    IN  SelectSeq(all, LAMBDA row : ~row.volatility_value.nan)

\* Closing prices are positive.
VolCloses == {10, 11}

CloseSeqs == UNION { [1..n -> VolCloses] : n \in 1..MaxVolBars }

CalculateRealizedVolatility ==
    /\ \E closes \in CloseSeqs, window \in 1..MaxWindow :
          vol' = [called |-> TRUE, window |-> window, closes |-> closes,
                  rows |-> calculate_realized_volatility(Text("SPY"), closes, window)]
    /\ UNCHANGED <<coerce, dbVars, callVars, runVars, sectorVars, batch, connection>>

InitVol ==
    /\ coerce = NoCoerce
    /\ assets = {}
    /\ daily_prices = {}
    /\ economic_indicators = {}
    /\ volatility_data = {}
    /\ dbcall = NoDbCall
    /\ lastAsset = NoAssetCalls
    /\ resolve = NoResolve
    /\ sector_performance = {}
    /\ sector_run = NoSectorRun
    /\ vol = NoVol
    /\ batch = NoBatch
    /\ connection = NoTransaction

NextVol == CalculateRealizedVolatility

SpecVol == InitVol /\ [][NextVol]_vars

\* The rows of the last call are one for each bar at 0-based position W..n-1,
\* max(0, n - W) in all, each with a value, type 'Realized' and period W.
RowsFromWindowOn ==
    LET n == Len(vol.closes)
        W == vol.window
    IN  /\ Len(vol.rows) = (IF n > W THEN n - W ELSE 0)
        /\ \A k \in 1..Len(vol.rows) :
              /\ vol.rows[k].date = W + k - 1
              /\ ~vol.rows[k].volatility_value.nan
              /\ vol.rows[k].volatility_type = "Realized"
              /\ vol.rows[k].volatility_period = W

\* C9 as stated: for every window W, calculate_realized_volatility emits exactly
\* max(0, n - W) rows, one for each bar at 0-based position W..n-1, each with a
\* non-null value, type 'Realized' and period W.
C9_RowsForEveryWindow == vol.called => RowsFromWindowOn

\* C9, amended: for a window W >= 2, calculate_realized_volatility emits exactly
\* max(0, n - W) rows, one for each bar at 0-based position W..n-1, each with a
\* non-null value, type 'Realized' and period W; for W = 1 it emits no row.
C9_RowsForWindowAtLeastTwo ==
    vol.called =>
        IF vol.window >= 2 THEN RowsFromWindowOn ELSE vol.rows = <<>>

C9_Witness ==
    /\ vol.called /\ vol.window = 2 /\ Len(vol.closes) = 4
    /\ Len(vol.rows) = 2
    /\ vol.rows[1].date = 2

----------------------------------------------------------------------------
(* Sector aggregation: update_sector_performance                           *)

\* A stored INTEGER as a number, and a number as a stored INTEGER.
IntOf(v) == IF v.neg THEN 0 - NatOf(v.s) ELSE NatOf(v.s)
IntValue(n) == IF n < 0 THEN PyInt(TRUE, DigitsOf(0 - n)) ELSE PyInt(FALSE, DigitsOf(n))

\* A stored number in hundredths, and hundredths as a REAL. The modelled ratios
\* carry at most two decimals.
Hundredths(v) ==
    LET fp == SubSeq(v.f \o <<"0", "0">>, 1, 2)
        h == 100 * NatOf(v.s) + NatOf(fp)
    IN  IF v.neg THEN 0 - h ELSE h

RealValue(h) ==
    LET a == IF h < 0 THEN 0 - h ELSE h
        fp == <<DigitChars[((a % 100) \div 10) + 1], DigitChars[(a % 10) + 1]>>
    IN  MkFloat(h < 0, DigitsOf(a \div 100), fp)

\* The sum of column c over the rows, a NULL adding nothing.
RECURSIVE SumHundredths(_, _)
SumHundredths(rows, c) ==
    IF rows = {} THEN 0
    ELSE LET r == CHOOSE x \in rows : TRUE
         IN  (IF r[c] = PyNone THEN 0 ELSE Hundredths(r[c]))
                + SumHundredths(rows \ {r}, c)

\* An aggregate that takes a column without a value for 0.
SqlSumNullAsZero(rows, c) == IntValue(SumHundredths(rows, c) \div 100)

\* SQL SUM(c) over the rows: NULLs are skipped; NULL when no row has a value.
SqlSum(rows, c) ==
    IF \A r \in rows : r[c] = PyNone THEN PyNone
    ELSE IntValue(SumHundredths(rows, c) \div 100)

\* SQL AVG(c) over the rows: the mean of the values that are not NULL (exact to
\* two decimals for the groups modelled); NULL when no row has a value.
SqlAvg(rows, c) ==
    LET valued == {r \in rows : r[c] # PyNone}
    IN  IF valued = {} THEN PyNone
        ELSE RealValue(SumHundredths(valued, c) \div Cardinality(valued))

\* The natural key of table sector_performance (its UNIQUE constraint).
SectorKey == {"sector", "date"}

\* is_active = TRUE
IsActive(r) == r["is_active"] = PyInt(FALSE, <<"1">>)

\* A snapshot write that appends the computed records to the table.
update_sector_performance_appending(table, snapshots, today) ==
    LET sectors == {r["sector"] : r \in {x \in table :
                        x["sector"] # PyNone /\ x["sector"] # Text("") /\ IsActive(x)}}
        members(s) == {r \in table : r["sector"] = s /\ IsActive(r)}
    IN  snapshots \cup
            {[sector |-> s,
              date |-> today,
              number_of_assets |-> IntValue(Cardinality(members(s))),
              total_market_cap |-> SqlSum(members(s), "market_capitalization"),
              avg_pe_ratio |-> SqlAvg(members(s), "pe_ratio"),
              avg_dividend_yield |-> SqlAvg(members(s), "dividend_yield")] : s \in sectors}

\* FinancialDataPipeline.update_sector_performance() on the tables `table`
\* (assets) and `snapshots` (sector_performance) on the day `today`: one record
\* for each sector that is neither NULL nor '' among the active assets, written
\* with INSERT OR REPLACE; nothing is written when there is no such sector.
update_sector_performance(table, snapshots, today) ==
    LET sectors == {r["sector"] : r \in {x \in table :
                        x["sector"] # PyNone /\ x["sector"] # Text("") /\ IsActive(x)}}
        members(s) == {r \in table : r["sector"] = s /\ IsActive(r)}
        sector_records ==
            {[sector |-> s,
              date |-> today,
              number_of_assets |-> IntValue(Cardinality(members(s))),
              total_market_cap |-> SqlSum(members(s), "market_capitalization"),
              avg_pe_ratio |-> SqlAvg(members(s), "pe_ratio"),
              avg_dividend_yield |-> SqlAvg(members(s), "dividend_yield")] : s \in sectors}
    IN  {q \in snapshots : \A n \in sector_records : ~KeyConflict(q, n, SectorKey)}
            \cup sector_records

\* The symbols of the aggregated table.
SectorSymbols == {Text("AAPL"), Text("MSFT"), Text("SPY")}

SectorRecord(sym, sector, cap, pe, dy) ==
    ("Symbol" :> sym) @@ ("Name" :> sym) @@ ("Sector" :> sector)
    @@ ("MarketCapitalization" :> cap) @@ ("PERatio" :> pe) @@ ("DividendYield" :> dy)

Cap3000 == PyInt(FALSE, <<"3", "0", "0", "0">>)
Cap500 == PyInt(FALSE, <<"5", "0", "0">>)
PE12_9 == PyFloat(FALSE, <<"1", "2">>, <<"9">>)
PE7 == PyFloat(FALSE, <<"7">>, <<>>)
DY0_5 == PyFloat(FALSE, <<"0">>, <<"5">>)
DY1_5 == PyFloat(FALSE, <<"1">>, <<"5">>)

\* The records each symbol may have been stored from: two companies of one
\* sector with some fundamentals unknown, and a fund whose sector is '' (the
\* secondary mapping's default), absent (the minimal record) or its own.
SectorRecords(sym) ==
    IF sym = Text("AAPL") THEN
        { SectorRecord(sym, Text("Tech"), Cap3000, PE12_9, DY0_5),
          SectorRecord(sym, Text("Tech"), PyNone, PyNone, PyNone),
          SectorRecord(sym, Text("Tech"), Cap3000, PyNone, DY0_5),
          SectorRecord(sym, Text("Tech"), PyNone, PE12_9, PyNone) }
    ELSE IF sym = Text("MSFT") THEN
        { SectorRecord(sym, Text("Tech"), Cap500, PE7, PyNone),
          SectorRecord(sym, Text("Tech"), PyNone, PyNone, DY1_5),
          SectorRecord(sym, Text("Tech"), Cap500, PyNone, PyNone) }
    ELSE
        { SectorRecord(sym, Text(""), Cap500, PE7, DY1_5),
          SectorRecord(sym, Text("Fin"), PyNone, PyNone, PyNone),
          SectorRecord(sym, Text("Fin"), Cap500, PE7, DY1_5),
          create_minimal_asset(sym, Text("ETF")) }

\* The rows a symbol may have in assets: none, or the one insert_asset stored.
StoredRows ==
    Built([sym \in SectorSymbols |->
        {{}} \cup {insert_asset({}, d, Healthy).table : d \in SectorRecords(sym)}])

\* The assets tables the aggregation runs on.
SectorTables ==
    { a \cup m \cup s : a \in StoredRows[Text("AAPL")],
                        m \in StoredRows[Text("MSFT")],
                        s \in StoredRows[Text("SPY")] }

\* The days the aggregation runs on.
SectorDays == <<PyStr(DateChars("2024-01-15")), PyStr(DateChars("2024-01-16"))>>

\* The record of a run on the day `day` that leaves the snapshots `after`.
SectorRun(day, after) ==
    [called |-> TRUE, day |-> day, today |-> SectorDays[day], assets |-> assets,
     again |-> sector_run.called /\ sector_run.day = day,
     same_assets |-> sector_run.called /\ sector_run.day = day
                        /\ sector_run.assets = assets,
     changed |-> after # sector_performance]

\* One run of update_sector_performance, on a day not before the last run's.
UpdateSectorPerformance ==
    /\ \E day \in 1..Len(SectorDays) :
          /\ day >= sector_run.day
          /\ \E after \in {update_sector_performance(assets, sector_performance,
                                                     SectorDays[day])} :
                /\ sector_performance' = after
                /\ sector_run' = SectorRun(day, after)
    /\ UNCHANGED <<coerce, dbVars, callVars, runVars, vol, batch, connection>>

InitSector ==
    /\ coerce = NoCoerce
    /\ assets \in SectorTables
    /\ daily_prices = {}
    /\ economic_indicators = {}
    /\ volatility_data = {}
    /\ dbcall = NoDbCall
    /\ lastAsset = NoAssetCalls
    /\ resolve = NoResolve
    /\ sector_performance = {}
    /\ sector_run = NoSectorRun
    /\ vol = NoVol
    /\ batch = NoBatch
    /\ connection = NoTransaction

NextSector == UpdateSectorPerformance

SpecSector == InitSector /\ [][NextSector]_vars

\* The active assets of sector s, and those of them with a value in column c.
SectorMembers(s) == {r \in assets : r["sector"] = s /\ r["is_active"] = IsActiveDefault}
Valued(s, c) == {r \in SectorMembers(s) : r[c] # PyNone}

\* The aggregate q is the mean of column c over the assets of s that have a
\* value, and NULL when none has.
MeanOfValued(q, s, c) ==
    IF Valued(s, c) = {} THEN q = PyNone
    ELSE /\ q # PyNone
         /\ Hundredths(q) * Cardinality(Valued(s, c)) = SumHundredths(Valued(s, c), c)

\* C10: after update_sector_performance, every non-empty sector with an active
\* asset has a row for the day of the run, and each such row has
\* number_of_assets = the number of active assets of the sector (those without a
\* market cap included), total_market_cap = the sum of the market caps that are
\* not NULL (NULL, not 0, when all are NULL), and avg_pe_ratio and
\* avg_dividend_yield = the means of the values that are not NULL.
C10_SectorAggregationNullSafe ==
    sector_run.called =>
        \A s \in {Text("Tech"), Text("Fin")} :
            SectorMembers(s) # {} =>
                /\ \E q \in sector_performance :
                      q.sector = s /\ q.date = sector_run.today
                /\ \A q \in sector_performance :
                      (q.sector = s /\ q.date = sector_run.today) =>
                        /\ IntOf(q.number_of_assets) = Cardinality(SectorMembers(s))
                        /\ IF Valued(s, "market_capitalization") = {}
                              THEN q.total_market_cap = PyNone
                              ELSE /\ q.total_market_cap # PyNone
                                   /\ 100 * IntOf(q.total_market_cap) =
                                        SumHundredths(Valued(s, "market_capitalization"),
                                                      "market_capitalization")
                        /\ MeanOfValued(q.avg_pe_ratio, s, "pe_ratio")
                        /\ MeanOfValued(q.avg_dividend_yield, s, "dividend_yield")

C10_Witness ==
    /\ sector_run.called
    /\ Cardinality(SectorMembers(Text("Tech"))) = 2
    /\ Cardinality(Valued(Text("Tech"), "market_capitalization")) = 1
    /\ Cardinality(Valued(Text("Tech"), "pe_ratio")) = 2
    /\ \E q \in sector_performance :
          /\ q.sector = Text("Tech")
          /\ q.number_of_assets = PyInt(FALSE, <<"2">>)
          /\ q.total_market_cap = Cap500
          /\ q.avg_pe_ratio = PyFloat(FALSE, <<"9">>, <<"9", "5">>)

----------------------------------------------------------------------------
(* Specification SpecSnapshot: the assets table changes between the runs    *)
(* of update_sector_performance                                            *)

\* The records stored between the runs: a company with and without
\* fundamentals, a second company of its sector, and a fund with a sector of
\* its own or with ''.
SnapshotRecords(sym) ==
    IF sym = Text("AAPL") THEN
        { SectorRecord(sym, Text("Tech"), Cap3000, PE12_9, DY0_5),
          SectorRecord(sym, Text("Tech"), PyNone, PyNone, PyNone) }
    ELSE IF sym = Text("MSFT") THEN
        { SectorRecord(sym, Text("Tech"), Cap500, PE7, PyNone) }
    ELSE
        { SectorRecord(sym, Text(""), Cap500, PE7, DY1_5),
          SectorRecord(sym, Text("Fin"), Cap500, PE7, DY1_5) }

\* Per symbol, the rows insert_asset binds for the symbol's records.
SnapshotRows ==
    Built([sym \in SectorSymbols |->
        UNION {insert_asset({}, d, Healthy).table : d \in SnapshotRecords(sym)}])

\* insert_asset of one of a symbol's records: INSERT OR REPLACE of its row.
StoreSectorAsset ==
    /\ \E sym \in SectorSymbols : \E row \in SnapshotRows[sym] :
          /\ row \notin assets
          /\ assets' = InsertOrReplace(assets, row, AssetsKey)
    /\ UNCHANGED <<coerce, daily_prices, macroVars, callVars, runVars, sectorVars, vol, batch, connection>>

InitSnapshot ==
    /\ coerce = NoCoerce
    /\ assets = {}
    /\ daily_prices = {}
    /\ economic_indicators = {}
    /\ volatility_data = {}
    /\ dbcall = NoDbCall
    /\ lastAsset = NoAssetCalls
    /\ resolve = NoResolve
    /\ sector_performance = {}
    /\ sector_run = NoSectorRun
    /\ vol = NoVol
    /\ batch = NoBatch
    /\ connection = NoTransaction

NextSnapshot == StoreSectorAsset \/ UpdateSectorPerformance

SpecSnapshot == InitSnapshot /\ [][NextSnapshot]_vars

\* The records the last run computed from the assets table it read.
LatestComputation ==
    update_sector_performance(sector_run.assets, {}, sector_run.today)

\* C11: after any number of update_sector_performance runs, sector_performance
\* has at most one row per (sector, date); every sector the last run computed
\* has its row for the day of the run holding that run's values; and a run that
\* follows a run of the same day on the same assets table leaves
\* sector_performance as it was.
C11_SnapshotIdempotentPerDate ==
    sector_run.called =>
        /\ \A q1, q2 \in sector_performance :
              KeyConflict(q1, q2, SectorKey) => q1 = q2
        /\ \A n \in LatestComputation : n \in sector_performance
        /\ sector_run.same_assets => ~sector_run.changed

C11_Witness ==
    /\ sector_run.called /\ sector_run.again
    /\ ~sector_run.same_assets /\ sector_run.changed
    /\ Cardinality({q \in sector_performance :
                        q.sector = Text("Tech") /\ q.date = sector_run.today}) = 1
    /\ \E q \in sector_performance :
          /\ q.sector = Text("Tech") /\ q.date = sector_run.today
          /\ q.number_of_assets = PyInt(FALSE, <<"2">>)
          /\ q.total_market_cap = Cap500

----------------------------------------------------------------------------
(* Derived and macro tables: volatility_data and economic_indicators       *)

\* The natural keys of the two tables (their UNIQUE constraints).
VolatilityKey == {"underlying_symbol", "date", "volatility_period", "volatility_type"}
EconomicIndicatorsKey == {"indicator_code", "date"}

\* A loop of plain INSERTs that keeps the rows already stored.
AppendAll(table, records, key) == table \cup {records[i] : i \in DOMAIN records}

\* One INSERT OR REPLACE for each record, in order.
RECURSIVE ReplaceAll(_, _, _)
ReplaceAll(table, records, key) ==
    IF records = <<>> THEN table
    ELSE ReplaceAll(InsertOrReplace(table, Head(records), key), Tail(records), key)

\* The loop of insert_volatility_data and insert_economic_indicators on the
\* table `table`: without a connection, self.connection.cursor() raises
\* AttributeError; a statement the storage rejects raises an sqlite3.Error,
\* which is caught and printed; otherwise every record is written and the
\* transaction committed.
insert_records(table, records, key, storage) ==
    IF storage = "no_connection"
        THEN [exc |-> "AttributeError", outcome |-> "raised", table |-> table]
    ELSE IF storage # Healthy
        THEN [exc |-> "none", outcome |-> "sqlite_error", table |-> table]
    ELSE [exc |-> "none", outcome |-> "committed",
          table |-> ReplaceAll(table, records, key)]

\* FinancialDatabase.insert_volatility_data(volatility_data)
insert_volatility_data(table, volatility_records, storage) ==
    insert_records(table, volatility_records, VolatilityKey, storage)

\* FinancialDatabase.insert_economic_indicators(indicator_data)
insert_economic_indicators(table, indicator_data, storage) ==
    insert_records(table, indicator_data, EconomicIndicatorsKey, storage)

\* The window collect_and_insert_volatility_data asks for.
VolatilityWindow == 30

\* FinancialDataPipeline.collect_and_insert_volatility_data(symbol) on the
\* table `table` (volatility_data), given yfinance's answer to the price
\* request: nothing without prices or without a computed row; otherwise one
\* record for each row, written by insert_volatility_data, whose exception is
\* caught. `calls` lists the provider request and the storage write.
collect_and_insert_volatility_data(storage, table, symbol, hist) ==
    LET price_data == get_price_data_yfinance(symbol, hist)
        closes == [i \in DOMAIN price_data.df.rows |->
                      Hundredths(price_data.df.rows[i]["close_price"])]
        volatility_df == calculate_realized_volatility(symbol, closes, VolatilityWindow)
        volatility_records ==
            [k \in DOMAIN volatility_df |->
                [underlying_symbol |-> volatility_df[k].symbol,
                 volatility_type |-> Text(volatility_df[k].volatility_type),
                 date |-> PyStr(price_data.df.rows[volatility_df[k].date + 1]["date"].s),
                 volatility_value |-> volatility_df[k].volatility_value,
                 volatility_period |-> IntValue(volatility_df[k].volatility_period)]]
        w == insert_volatility_data(table, volatility_records, storage)
    IN  IF ~price_data.some \/ volatility_df = <<>>
            THEN [table |-> table, records |-> <<>>, calls |-> <<"yfinance_history">>]
        ELSE [table |-> w.table, records |-> volatility_records,
              calls |-> <<"yfinance_history", "insert_volatility_data">>]

\* FinancialDataCollector.get_fred_indicators(): the series, in the order of the
\* dictionary, and their metadata.
FredSeries ==
    <<"FEDFUNDS", "UNRATE", "CPIAUCSL", "GDP", "GS10", "DGS2", "VIXCLS", "UMCSENT">>

FredIndicators ==
    [series_id \in {FredSeries[i] : i \in DOMAIN FredSeries} |->
        CASE series_id = "FEDFUNDS" ->
                [name |-> "Federal Funds Rate", unit |-> "Percent",
                 frequency |-> "Monthly", source |-> "FRED"]
          [] series_id = "UNRATE" ->
                [name |-> "Unemployment Rate", unit |-> "Percent",
                 frequency |-> "Monthly", source |-> "FRED"]
          [] series_id = "CPIAUCSL" ->
                [name |-> "Consumer Price Index for All Urban Consumers",
                 unit |-> "Index 1982-84=100", frequency |-> "Monthly",
                 source |-> "FRED"]
          [] series_id = "GDP" ->
                [name |-> "Gross Domestic Product", unit |-> "Billions of Dollars",
                 frequency |-> "Quarterly", source |-> "FRED"]
          [] series_id = "GS10" ->
                [name |-> "10-Year Treasury Constant Maturity Rate",
                 unit |-> "Percent", frequency |-> "Daily", source |-> "FRED"]
          [] series_id = "DGS2" ->
                [name |-> "2-Year Treasury Constant Maturity Rate",
                 unit |-> "Percent", frequency |-> "Daily", source |-> "FRED"]
          [] series_id = "VIXCLS" ->
                [name |-> "CBOE Volatility Index: VIX", unit |-> "Index",
                 frequency |-> "Daily", source |-> "FRED"]
          [] series_id = "UMCSENT" ->
                [name |-> "University of Michigan: Consumer Sentiment",
                 unit |-> "Index 1966:Q1=100", frequency |-> "Monthly",
                 source |-> "FRED"]]

\* FRED's answer to one request: an exception, a body without 'observations',
\* or observations [date, value], the date a day of the calendar and the value
\* a string ('.' where FRED has no value).
FredFailed == [exc |-> TRUE, has_observations |-> FALSE, observations |-> <<>>]
FredNoObservations == [exc |-> FALSE, has_observations |-> FALSE, observations |-> <<>>]
FredObservations(obs) == [exc |-> FALSE, has_observations |-> TRUE, observations |-> obs]

\* pd.to_numeric(value, errors='coerce')
ToNumeric(v) ==
    LET r == PyFloatOf(v) IN IF r.exc = "none" THEN r.val ELSE PyNaN

\* A fetcher that asks FRED without looking for the key.
get_fred_economic_data_keyless(has_key, series_id, response) ==
    LET df == [i \in DOMAIN response.observations |->
                  [date |-> response.observations[i].date,
                   series_id |-> series_id,
                   value |-> ToNumeric(response.observations[i].value)]]
    IN  IF response.exc \/ ~response.has_observations \/ response.observations = <<>>
            THEN [some |-> FALSE, rows |-> <<>>]
        ELSE [some |-> TRUE, rows |-> SelectSeq(df, LAMBDA row : ~IsNaN(row.value))]

\* FinancialDataCollector.get_fred_economic_data(series_id): None without a key,
\* on an exception (an empty observations list has no 'date' column) and on a
\* body without 'observations'; otherwise the observations whose value is a
\* number, as rows [date, series_id, value].
get_fred_economic_data(has_key, series_id, response) ==
    LET df == [i \in DOMAIN response.observations |->
                  [date |-> response.observations[i].date,
                   series_id |-> series_id,
                   value |-> ToNumeric(response.observations[i].value)]]
    IN  IF ~has_key \/ response.exc \/ ~response.has_observations
            \/ response.observations = <<>>
            THEN [some |-> FALSE, rows |-> <<>>]
        ELSE [some |-> TRUE, rows |-> SelectSeq(df, LAMBDA row : ~IsNaN(row.value))]

RECURSIVE Flatten(_)
Flatten(seqs) == IF seqs = <<>> THEN <<>> ELSE Head(seqs) \o Flatten(Tail(seqs))

\* A stage that gives up at the first series without data: only the series
\* before it contribute records.
collect_and_insert_economic_indicators_stopping(storage, table, has_key, answers) ==
    LET fred_data(i) == get_fred_economic_data(has_key, FredSeries[i], answers[FredSeries[i]])
        reached(i) == \A j \in 1..i : fred_data(j).some
        indicator_records ==
            Flatten([i \in DOMAIN FredSeries |->
                IF ~reached(i) THEN <<>>
                ELSE [k \in DOMAIN fred_data(i).rows |->
                    [indicator_name |-> FredIndicators[FredSeries[i]].name,
                     indicator_code |-> Text(FredSeries[i]),
                     date |-> PyStr(DayChars(fred_data(i).rows[k].date)),
                     value |-> fred_data(i).rows[k].value,
                     unit |-> FredIndicators[FredSeries[i]].unit,
                     frequency |-> FredIndicators[FredSeries[i]].frequency,
                     source |-> FredIndicators[FredSeries[i]].source]]])
        requests == IF has_key THEN [i \in DOMAIN FredSeries |-> "fred"] ELSE <<>>
        w == insert_economic_indicators(table, indicator_records, storage)
    IN  IF indicator_records = <<>>
            THEN [table |-> table, records |-> <<>>, calls |-> requests]
        ELSE [table |-> w.table, records |-> indicator_records,
              calls |-> requests \o <<"insert_economic_indicators">>]

\* FinancialDataPipeline.collect_and_insert_economic_indicators() on the table
\* `table` (economic_indicators), given FRED's answer for each series: one
\* record for each row of each series that has data, written in one
\* insert_economic_indicators call, whose exception is caught; no call when
\* there is no record. `calls` lists the provider requests (made only with a
\* key) and the storage write.
collect_and_insert_economic_indicators(storage, table, has_key, answers) ==
    LET fred_data(i) == get_fred_economic_data(has_key, FredSeries[i], answers[FredSeries[i]])
        indicator_records ==
            Flatten([i \in DOMAIN FredSeries |->
                [k \in DOMAIN fred_data(i).rows |->
                    [indicator_name |-> FredIndicators[FredSeries[i]].name,
                     indicator_code |-> Text(FredSeries[i]),
                     date |-> PyStr(DayChars(fred_data(i).rows[k].date)),
                     value |-> fred_data(i).rows[k].value,
                     unit |-> FredIndicators[FredSeries[i]].unit,
                     frequency |-> FredIndicators[FredSeries[i]].frequency,
                     source |-> FredIndicators[FredSeries[i]].source]]])
        requests == IF has_key THEN [i \in DOMAIN FredSeries |-> "fred"] ELSE <<>>
        w == insert_economic_indicators(table, indicator_records, storage)
    IN  IF indicator_records = <<>>
            THEN [table |-> table, records |-> <<>>, calls |-> requests]
        ELSE [table |-> w.table, records |-> indicator_records,
              calls |-> requests \o <<"insert_economic_indicators">>]

----------------------------------------------------------------------------
(* Batch runners: run_comprehensive_collection and batch_collect_with_delay *)

MaxItems == 3

\* The default delay between items, in seconds.
DefaultDelay == 12

Delays == {0, DefaultDelay}

\* What happens to an item: its collection succeeds, returns nothing usable, or
\* throws; `long` succeeds with a price history longer than the volatility
\* window.
ItemCases == {"ok", "none", "throws"}

BatchItems == [symbol : SymbolValues, case : ItemCases]

ItemLists == UNION { [1..n -> BatchItems] : n \in 0..MaxItems }

\* The asset type each symbol is listed with.
TypeOf(symbol) == IF symbol = Text("SPY") THEN Text("ETF") ELSE Text("Stock")

\* A price history of n consecutive days whose closes alternate.
LongHistory(n) ==
    History([k \in 1..n |->
        <<k, IF k % 2 = 0 THEN PyFloat(FALSE, <<"1", "1">>, <<>>)
                          ELSE PyFloat(FALSE, <<"1", "0">>, <<"5">>)>>])

\* The same days with closes that swing wider.
WideHistory(n) ==
    History([k \in 1..n |->
        <<k, IF k % 2 = 0 THEN PyFloat(FALSE, <<"1", "2">>, <<>>)
                          ELSE PyFloat(FALSE, <<"1", "0">>, <<"5">>)>>])

\* The quote info yfinance has for the items it knows.
YFQuote ==
    ("longName" :> Text("Apple")) @@ ("sector" :> Text("Fin"))
    @@ ("marketCap" :> PyInt(FALSE, <<"3", "0", "0", "0">>))
    @@ ("trailingPE" :> PyFloat(FALSE, <<"1", "2">>, <<"9">>))

\* The provider answers behind each case of collect_and_insert_asset: a sparse
\* overview, a quote info and a price history (stored, True); a complete
\* overview, whose record insert_asset rejects, and no prices (False); an
\* overview with a numeric DividendDate, on which the primary mapping raises; a
\* complete overview with a long price history (unstored, True).
CaseAnswers(item) ==
    CASE item.case = "ok" ->
            [av |-> Answer(AVOverview(item.symbol, PyStr(StrNone), PyStr(StrDash),
                                      PyStr(StrNone))),
             yf |-> Answer(YFQuote),
             hist |-> History(<<<<1, PyFloat(FALSE, <<"1", "0">>, <<"5">>)>>>>)]
      [] item.case = "long" ->
            [av |-> Answer(AVOverview(item.symbol, PyStr(StrNone), PyStr(StrDash),
                                      PyStr(StrNone))),
             yf |-> Answer(YFQuote),
             hist |-> LongHistory(VolatilityWindow + 2)]
      [] item.case = "none" ->
            [av |-> Answer(AVOverview(item.symbol, PyStr(Str3T), PyStr(Str12_9),
                                      PyStr(StrDate))),
             yf |-> Failed,
             hist |-> HistoryFailed]
      [] item.case = "unstored" ->
            [av |-> Answer(AVComplete(item.symbol)),
             yf |-> Answer(YFQuote),
             hist |-> LongHistory(VolatilityWindow + 2)]
      [] item.case = "throws" ->
            [av |-> Answer(AVMalformed(item.symbol)), yf |-> Failed,
             hist |-> HistoryFailed]

\* The calls of the item at position i, as events of the log.
Tagged(calls, i) == [k \in DOMAIN calls |-> <<calls[k], i>>]

\* An iteration that declares the item ended before its volatility stage.
AfterItem_overlapping(b, stage) ==
    <<<<"end", b.i>>>>
    \o (IF b.i < Len(b.items) - 1 /\ b.delay > 0 THEN <<<<"sleep", b.i>>>> ELSE <<>>)
    \o stage

\* The events one iteration appends to the log after the item's collection: the
\* events of the volatility stage (none when it does not run), the item's end,
\* and the sleep that follows unless the item is the last or the delay is 0.
AfterItem(b, stage) ==
    stage
    \o <<<<"end", b.i>>>>
    \o (IF b.i < Len(b.items) - 1 /\ b.delay > 0 THEN <<<<"sleep", b.i>>>> ELSE <<>>)

\* What FRED answers for each series when it answers nothing.
FredSilent == [series_id \in DOMAIN FredIndicators |-> FredFailed]

StartComprehensive ==
    /\ batch.pc = "idle"
    /\ \E items \in ItemLists, delay \in Delays, econ \in BOOLEAN, volat \in BOOLEAN :
          batch' = [NoBatch EXCEPT !.runner = "run_comprehensive_collection",
                                   !.pc = "loop", !.items = items, !.delay = delay,
                                   !.include_economic_data = econ,
                                   !.include_volatility = volat,
                                   !.fred = FredSilent]
    /\ UNCHANGED <<coerce, dbVars, callVars, runVars, sectorVars, vol, connection>>

\* One iteration of run_comprehensive_collection's loop. The call of
\* collect_and_insert_asset is not guarded: its exception ends the run. The
\* volatility stage follows a successful item when it is requested.
ComprehensiveItem ==
    /\ batch.runner = "run_comprehensive_collection"
    /\ batch.pc = "loop"
    /\ batch.i < Len(batch.items)
    /\ LET item == batch.items[batch.i + 1]
           ans == CaseAnswers(item)
       IN  \E r \in {collect_and_insert_asset(batch.storage, assets, daily_prices,
                                             item.symbol, TypeOf(item.symbol),
                                             batch.av_key, ans.av, ans.yf, ans.hist)} :
           \E v \in {IF r.exc = "none" /\ r.success /\ batch.include_volatility
                         THEN collect_and_insert_volatility_data(
                                  batch.storage, volatility_data, item.symbol, ans.hist)
                         ELSE [table |-> volatility_data, records |-> <<>>,
                               calls |-> <<>>]} :
              /\ Resolved(item.symbol, TypeOf(item.symbol), batch.av_key, ans.av,
                          ans.yf, ans.hist, r)
              /\ volatility_data' = v.table
              /\ batch' =
                    IF r.exc # "none"
                        THEN [batch EXCEPT
                                !.pc = "raised", !.exc = r.exc,
                                !.log = @ \o <<<<"start", batch.i>>>>
                                          \o Tagged(r.calls, batch.i)
                                          \o <<<<"raise", batch.i>>>>]
                        ELSE [batch EXCEPT
                                !.i = @ + 1,
                                !.successful = IF r.success THEN @ + 1 ELSE @,
                                !.log = @ \o <<<<"start", batch.i>>>>
                                          \o Tagged(r.calls, batch.i)
                                          \o AfterItem(batch,
                                                IF r.success /\ batch.include_volatility
                                                    THEN <<<<"volatility", batch.i>>>>
                                                            \o Tagged(v.calls, batch.i)
                                                    ELSE <<>>)]
    /\ UNCHANGED <<coerce, economic_indicators, dbcall, sectorVars, vol, connection>>

\* update_sector_performance as the run calls it: on a storage that is not
\* healthy the queries or the write fail, the error is caught and printed, and
\* nothing is written.
sector_update(storage, table, snapshots, today) ==
    IF storage = Healthy THEN update_sector_performance(table, snapshots, today)
    ELSE snapshots

\* FinancialDatabase.get_data_summary(): the exception it raises. Its queries
\* are not guarded: without a connection self.connection.cursor() raises
\* AttributeError, without the schema the first COUNT(*) raises
\* sqlite3.OperationalError.
get_data_summary(storage) ==
    IF storage = "no_connection" THEN "AttributeError"
    ELSE IF storage = "no_schema" THEN "OperationalError"
    ELSE "none"

\* After the loop: the economic indicators if requested, the sector snapshot,
\* and the summary, whose exception leaves the run.
ComprehensiveFinish ==
    /\ batch.runner = "run_comprehensive_collection"
    /\ batch.pc = "loop"
    /\ batch.i = Len(batch.items)
    /\ \E e \in {IF batch.include_economic_data
                     THEN collect_and_insert_economic_indicators(
                              batch.storage, economic_indicators, batch.fred_key,
                              batch.fred)
                     ELSE [table |-> economic_indicators, records |-> <<>>,
                           calls |-> <<>>]},
          after \in {sector_update(batch.storage, assets, sector_performance,
                                   SectorDays[1])},
          summary \in {get_data_summary(batch.storage)} :
          /\ economic_indicators' = e.table
          /\ sector_performance' = after
          /\ sector_run' = SectorRun(1, after)
          /\ batch' = [batch EXCEPT
                          !.pc = IF summary = "none" THEN "done" ELSE "raised",
                          !.exc = summary,
                          !.log = @ \o (IF batch.include_economic_data
                                           THEN <<<<"economic_indicators", batch.i>>>>
                                                    \o Tagged(e.calls, batch.i)
                                           ELSE <<>>)
                                    \o <<<<"sector_performance", batch.i>>>>
                                    \o (IF summary = "none"
                                            THEN <<<<"summary", batch.i>>>>
                                            ELSE <<<<"raise", batch.i>>>>)]
    /\ UNCHANGED <<coerce, assets, daily_prices, volatility_data, callVars, runVars, vol, connection>>

StartBatchCollect ==
    /\ batch.pc = "idle"
    /\ \E items \in ItemLists, delay \in Delays :
          batch' = [NoBatch EXCEPT !.runner = "batch_collect_with_delay",
                                   !.pc = "loop", !.items = items, !.delay = delay]
    /\ UNCHANGED <<coerce, dbVars, callVars, runVars, sectorVars, vol, connection>>

\* One iteration of batch_collect_with_delay's loop: collection_func's result, or
\* None for the exception it raised, is stored under the symbol.
BatchCollectItem ==
    /\ batch.runner = "batch_collect_with_delay"
    /\ batch.pc = "loop"
    /\ batch.i < Len(batch.items)
    /\ LET item == batch.items[batch.i + 1]
           result == IF item.case = "ok" THEN Some("Symbol" :> item.symbol) ELSE NoData
       IN  batch' = [batch EXCEPT
                        !.i = @ + 1,
                        !.results = [s \in DOMAIN @ \cup {item.symbol} |->
                                        IF s = item.symbol THEN result ELSE @[s]],
                        !.log = @ \o <<<<"start", batch.i>>, <<"collect", batch.i>>>>
                                  \o AfterItem(batch, <<>>)]
    /\ UNCHANGED <<coerce, dbVars, callVars, runVars, sectorVars, vol, connection>>

\* After the loop: the results that are not None are counted and returned.
BatchCollectFinish ==
    /\ batch.runner = "batch_collect_with_delay"
    /\ batch.pc = "loop"
    /\ batch.i = Len(batch.items)
    /\ batch' = [batch EXCEPT
                    !.pc = "done",
                    !.successful = Cardinality({s \in DOMAIN batch.results :
                                                    batch.results[s].some})]
    /\ UNCHANGED <<coerce, dbVars, callVars, runVars, sectorVars, vol, connection>>

InitBatch ==
    /\ coerce = NoCoerce
    /\ assets = {}
    /\ daily_prices = {}
    /\ economic_indicators = {}
    /\ volatility_data = {}
    /\ dbcall = NoDbCall
    /\ lastAsset = NoAssetCalls
    /\ resolve = NoResolve
    /\ sector_performance = {}
    /\ sector_run = NoSectorRun
    /\ vol = NoVol
    /\ batch = NoBatch
    /\ connection = NoTransaction

NextBatch ==
    \/ StartComprehensive
    \/ ComprehensiveItem
    \/ ComprehensiveFinish
    \/ StartBatchCollect
    \/ BatchCollectItem
    \/ BatchCollectFinish

SpecBatch == InitBatch /\ [][NextBatch]_vars

\* The run has ended, by returning or by an exception.
RunEnded == batch.pc \in {"done", "raised"}

\* The events of one kind in the log, in order.
Events(kind) == SelectSeq(batch.log, LAMBDA e : e[1] = kind)

\* C7: when a run of either batch runner over N items with a delay D > 0 has
\* ended, it has slept exactly N-1 times (0 times when N <= 1), and every sleep
\* comes right after the end of an item i and right before the start of item
\* i+1, whatever became of item i.
C7_SleepsBetweenItems ==
    (RunEnded /\ batch.delay > 0) =>
        /\ Len(Events("sleep")) =
              (IF Len(batch.items) <= 1 THEN 0 ELSE Len(batch.items) - 1)
        /\ \A p \in 1..Len(batch.log) :
              batch.log[p][1] = "sleep" =>
                  /\ p > 1 /\ p < Len(batch.log)
                  /\ batch.log[p - 1] = <<"end", batch.log[p][2]>>
                  /\ batch.log[p + 1] = <<"start", batch.log[p][2] + 1>>

\* C8: when a run of either batch runner, over items of different symbols of
\* which one throws, has ended, it has not raised, every item has been started,
\* in order, and the reported number of successes is the number of items whose
\* collection succeeded.
C8_BatchContinuesAfterThrow ==
    (/\ RunEnded
     /\ \E k \in 1..Len(batch.items) : batch.items[k].case = "throws"
     /\ \A j, k \in 1..Len(batch.items) :
            j # k => batch.items[j].symbol # batch.items[k].symbol) =>
        /\ batch.exc = "none"
        /\ Events("start") = [k \in 1..Len(batch.items) |-> <<"start", k - 1>>]
        /\ batch.successful =
              Cardinality({k \in 1..Len(batch.items) : batch.items[k].case = "ok"})

\* The position in the input list of the item the run handled last.
LastItem ==
    IF batch.pc = "raised" /\ batch.i < Len(batch.items) THEN batch.i + 1 ELSE batch.i

\* C19: at every moment of a run of either batch runner, the events of the log
\* are in the order of the input list: the items were started one after the
\* other from the first, every provider request and storage write of an item
\* lies between that item's start and its end, so no event of one item falls
\* among those of another, and the item handled last is the one at that
\* position of the list.
C19_StrictInputOrder ==
    /\ \A p, q \in DOMAIN batch.log : p < q => batch.log[p][2] <= batch.log[q][2]
    /\ Events("start") = [k \in 1..Len(Events("start")) |-> <<"start", k - 1>>]
    /\ \A p \in DOMAIN batch.log :
          batch.log[p][2] < Len(batch.items) =>
              /\ \E a \in 1..p : batch.log[a] = <<"start", batch.log[p][2]>>
              /\ batch.log[p][1] \notin {"end", "sleep"} =>
                    \A e \in 1..p : batch.log[e] # <<"end", batch.log[p][2]>>
    /\ (batch.runner = "run_comprehensive_collection" /\ LastItem >= 1) =>
          /\ resolve.called
          /\ resolve.symbol = batch.items[LastItem].symbol
    /\ batch.runner = "batch_collect_with_delay" =>
          DOMAIN batch.results = {batch.items[k].symbol : k \in 1..batch.i}

\* A run over three items with the volatility stage has ended: the second
\* item's volatility request lies before the third item's start.
C19_Witness ==
    /\ RunEnded /\ batch.runner = "run_comprehensive_collection"
    /\ batch.include_volatility /\ batch.delay > 0
    /\ Len(batch.items) = 3
    /\ batch.items[1].symbol # batch.items[2].symbol
    /\ \A k \in 1..3 : batch.items[k].case = "ok"
    /\ \E p, q \in DOMAIN batch.log :
          /\ p < q
          /\ batch.log[p] = <<"volatility", 1>>
          /\ batch.log[q] = <<"start", 2>>
    /\ resolve.symbol = batch.items[3].symbol

\* What collection_func gave for the item at position i (1-based): usable data,
\* or None (returned, or put in place of the exception it raised).
OutcomeOf(i) ==
    IF batch.items[i].case = "ok" THEN Some("Symbol" :> batch.items[i].symbol) ELSE NoData

\* C25: when batch_collect_with_delay returns, the number of successes it
\* reports equals the number of input items whose collection returned usable
\* data, a repeated symbol counted once per occurrence, and the returned results
\* hold the outcome of every item.
C25_BatchCountsEveryItem ==
    (batch.runner = "batch_collect_with_delay" /\ batch.pc = "done") =>
        /\ batch.successful
              = Cardinality({i \in DOMAIN batch.items : OutcomeOf(i).some})
        /\ \A i \in DOMAIN batch.items :
              /\ batch.items[i].symbol \in DOMAIN batch.results
              /\ batch.results[batch.items[i].symbol] = OutcomeOf(i)

----------------------------------------------------------------------------
(* Specification SpecRun: one run_comprehensive_collection on a pipeline   *)
(* with or without its API keys, on a storage in any state                 *)

MaxRunItems == 2

\* The items of a run: a stock in each of the cases, and a fund with a long
\* price history, its overview sparse or complete.
RunItems ==
    [symbol : {Text("AAPL")}, case : ItemCases]
    \cup [symbol : {Text("SPY")}, case : {"long", "unstored"}]

RunLists == UNION { [1..n -> RunItems] : n \in 0..MaxRunItems }

Obs(day, chars) == [date |-> day, value |-> PyStr(chars)]

\* What FRED may answer for the series: nothing; two monthly series, one with
\* a value FRED does not have ('.'); an exception for the first series, values
\* for the second and an empty observations list for another.
FredProfiles ==
    { FredSilent,
      [series_id \in DOMAIN FredIndicators |->
          CASE series_id = "FEDFUNDS" ->
                  FredObservations(<<Obs(1, <<"5", ".", "3", "3">>), Obs(2, <<".">>)>>)
            [] series_id = "UNRATE" -> FredObservations(<<Obs(1, <<"3", ".", "7">>)>>)
            [] OTHER -> FredNoObservations],
      [series_id \in DOMAIN FredIndicators |->
          CASE series_id = "UNRATE" ->
                  FredObservations(<<Obs(1, <<"3", ".", "9">>), Obs(2, <<"4", ".", "0">>)>>)
            [] series_id = "GDP" -> FredObservations(<<>>)
            [] OTHER -> FredFailed] }

\* FinancialDataPipeline(db_path, alpha_vantage_key, fred_api_key) followed by
\* run_comprehensive_collection(symbols_and_types, include_economic_data,
\* include_volatility); `fred` is what FRED would answer to each request.
StartRun ==
    /\ batch.pc = "idle"
    /\ \E items \in RunLists, storage \in StorageStates, av_key \in BOOLEAN,
          fred_key \in BOOLEAN, econ \in BOOLEAN, volat \in BOOLEAN :
       \E fred \in (IF econ THEN FredProfiles ELSE {FredSilent}) :
          batch' = [NoBatch EXCEPT !.runner = "run_comprehensive_collection",
                                   !.pc = "loop", !.items = items,
                                   !.delay = DefaultDelay,
                                   !.include_economic_data = econ,
                                   !.include_volatility = volat,
                                   !.storage = storage, !.av_key = av_key,
                                   !.fred_key = fred_key, !.fred = fred]
    /\ UNCHANGED <<coerce, dbVars, callVars, runVars, sectorVars, vol, connection>>

InitRun == InitBatch

NextRun == StartRun \/ ComprehensiveItem \/ ComprehensiveFinish

SpecRun == InitRun /\ [][NextRun]_vars

\* C13: whatever the providers answer and whatever the state of the storage
\* (writes rejected, schema never created, no connection), a
\* run_comprehensive_collection that has ended has raised nothing and has gone
\* through its sector update and its data summary.
C13_RunNeverRaises ==
    RunEnded =>
        /\ batch.exc = "none"
        /\ Events("sector_performance") # <<>>
        /\ Events("summary") # <<>>

\* The storage has its tables: a connection was made and the schema created.
HasTables == batch.storage \in {Healthy, "write_fails"}

\* C16: in a run without an Alpha Vantage key the primary provider is never
\* requested, every item is resolved from the secondary or the minimal mapping
\* and none raises, so every item is gone through and the sector stage reached;
\* in a run without a FRED key whose economic stage ran, no FRED request and no
\* economic_indicators write was made, the table is empty and the sector stage
\* followed; and a run without the Alpha Vantage key on a storage that has its
\* tables ends without raising.
C16_MissingCredentialsDegrade ==
    batch.runner = "run_comprehensive_collection" =>
        /\ ~batch.av_key =>
              /\ Events("alpha_vantage") = <<>>
              /\ resolve.called =>
                    /\ resolve.source \in {"secondary", "minimal"}
                    /\ resolve.exc = "none"
              /\ RunEnded =>
                    /\ Len(Events("end")) = Len(batch.items)
                    /\ Len(Events("yfinance_info")) = Len(batch.items)
                    /\ Events("sector_performance") # <<>>
                    /\ HasTables => batch.exc = "none"
        /\ (~batch.fred_key /\ Events("economic_indicators") # <<>>) =>
              /\ Events("fred") = <<>>
              /\ Events("insert_economic_indicators") = <<>>
              /\ economic_indicators = {}
              /\ Events("sector_performance") # <<>>
              /\ (HasTables /\ ~batch.av_key) => batch.exc = "none"

\* A run without either key, over an item whose overview would make the
\* primary mapping raise, with FRED ready to answer, has ended.
C16_Witness ==
    /\ RunEnded /\ ~batch.av_key /\ ~batch.fred_key
    /\ batch.include_economic_data /\ batch.fred # FredSilent
    /\ batch.storage = Healthy /\ batch.exc = "none"
    /\ Len(batch.items) = 2
    /\ batch.items[1].case = "throws" /\ batch.items[2].case = "long"
    /\ Events("summary") # <<>>
    /\ economic_indicators = {}
    /\ \E r \in assets : r["symbol"] = Text("AAPL")

\* One iteration of the run's loop is about to be taken.
AtItem ==
    /\ batch.runner = "run_comprehensive_collection"
    /\ batch.pc = "loop"
    /\ batch.i < Len(batch.items)

Missed(series_id) ==
    \/ ~batch.fred_key
    \/ batch.fred[series_id].exc
    \/ ~batch.fred[series_id].has_observations

\* The rows of economic_indicators for a series and a day.
IndicatorRows(series_id, day) ==
    {r \in economic_indicators :
        r.indicator_code = Text(series_id) /\ r.date = PyStr(DayChars(day))}

\* C26: after a run whose economic stage has run, a series whose
\* provider call missed has no row; on a healthy storage each observation of
\* the other series is stored under its series and date with its number if its
\* value parses, and not at all if it does not; every stored row has a value
\* that is a number, not null; and insert_economic_indicators was called only
\* if some series gave a row.
C26_MacroSeriesFaultIsolated ==
    (RunEnded /\ Events("economic_indicators") # <<>>) =>
        /\ \A series_id \in DOMAIN FredIndicators :
              IF Missed(series_id)
                  THEN \A r \in economic_indicators : r.indicator_code # Text(series_id)
              ELSE \A i \in DOMAIN batch.fred[series_id].observations :
                      LET o == batch.fred[series_id].observations[i]
                      IN  IF IsNaN(ToNumeric(o.value))
                              THEN IndicatorRows(series_id, o.date) = {}
                          ELSE batch.storage = Healthy =>
                                  \E r \in IndicatorRows(series_id, o.date) :
                                      r.value = ToNumeric(o.value)
        /\ \A r \in economic_indicators :
              r.value # PyNone /\ r.value.t = "float" /\ ~IsNaN(r.value)
        /\ (Events("insert_economic_indicators") # <<>>) <=>
              \E series_id \in DOMAIN FredIndicators :
                  /\ ~Missed(series_id)
                  /\ \E i \in DOMAIN batch.fred[series_id].observations :
                        ~IsNaN(ToNumeric(batch.fred[series_id].observations[i].value))

\* A run in which the request of the first series raised and the rows of a
\* later series were stored.
C26_Witness ==
    /\ RunEnded /\ Events("economic_indicators") # <<>> /\ batch.fred_key
    /\ batch.storage = Healthy
    /\ batch.fred["FEDFUNDS"].exc
    /\ \E r \in economic_indicators : r.indicator_code = Text("UNRATE")

\* The positions of the run's log that hold an event of one of the kinds.
Positions(kinds) == {k \in DOMAIN batch.log : batch.log[k][1] \in kinds}

\* C30: in a run that has ended, a volatility stage belongs to an item that
\* returned success, comes after that item's asset stage, and there is none
\* without include_volatility; the economic stage comes only if requested and
\* after the end of every item; the sector update happened exactly once, after
\* every asset write and after the economic stage.
C30_StageOrdering ==
    (RunEnded /\ batch.runner = "run_comprehensive_collection") =>
        /\ Len(Events("volatility"))
              = (IF batch.include_volatility THEN batch.successful ELSE 0)
        /\ \A k \in Positions({"volatility"}) :
              \E j \in Positions({"yfinance_history"}) :
                  j < k /\ batch.log[j][2] = batch.log[k][2]
        /\ \A k \in Positions({"economic_indicators"}) :
              /\ batch.include_economic_data
              /\ \A i \in DOMAIN batch.items :
                    \E j \in Positions({"end"}) : j < k /\ batch.log[j][2] = i - 1
        /\ Cardinality(Positions({"sector_performance"})) = 1
        /\ \A k \in Positions({"sector_performance"}) :
              \A j \in Positions({"insert_asset", "insert_daily_prices",
                                  "economic_indicators",
                                  "insert_economic_indicators"}) : j < k

----------------------------------------------------------------------------
(* Specification SpecDerived: the volatility and the economic stage, run   *)
(* again and again on a storage that accepts every write                   *)

\* What yfinance answers to the volatility stage's price request: an
\* exception, a history shorter than the window, and histories that give one
\* or two volatility rows, with closes of two kinds.
DerivedHistories ==
    { HistoryFailed, LongHistory(VolatilityWindow),
      LongHistory(VolatilityWindow + 1), LongHistory(VolatilityWindow + 2),
      WideHistory(VolatilityWindow + 1), WideHistory(VolatilityWindow + 2) }

CollectAndInsertVolatilityData ==
    /\ \E symbol \in SymbolValues, hist \in DerivedHistories :
          \E v \in {collect_and_insert_volatility_data(Healthy, volatility_data,
                                                       symbol, hist)} :
              /\ volatility_data' = v.table
              /\ dbcall' = [op |-> "insert_volatility_data",
                            outcome |-> IF v.records = <<>> THEN "none" ELSE "committed",
                            exc |-> "none", symbol |-> symbol, frame |-> "none",
                            bars |-> <<>>, records |-> v.records]
    /\ UNCHANGED <<coerce, assets, daily_prices, economic_indicators, lastAsset,
                   runVars, sectorVars, vol, batch, connection>>

CollectAndInsertEconomicIndicators ==
    /\ \E has_key \in BOOLEAN, answers \in FredProfiles :
          \E e \in {collect_and_insert_economic_indicators(Healthy, economic_indicators,
                                                           has_key, answers)} :
              /\ economic_indicators' = e.table
              /\ dbcall' = [op |-> "insert_economic_indicators",
                            outcome |-> IF e.records = <<>> THEN "none" ELSE "committed",
                            exc |-> "none", symbol |-> PyNone, frame |-> "none",
                            bars |-> <<>>, records |-> e.records]
    /\ UNCHANGED <<coerce, assets, daily_prices, volatility_data, lastAsset,
                   runVars, sectorVars, vol, batch, connection>>

InitDerived == InitBatch

NextDerived == CollectAndInsertVolatilityData \/ CollectAndInsertEconomicIndicators

SpecDerived == InitDerived /\ [][NextDerived]_vars

\* The records of the last write that no later record of the same write
\* replaced.
LastWritten(key) ==
    {dbcall.records[i] : i \in
        {j \in DOMAIN dbcall.records :
            \A k \in DOMAIN dbcall.records :
                k > j => ~KeyConflict(dbcall.records[j], dbcall.records[k], key)}}

\* C18: after any sequence of volatility and economic stages,
\* economic_indicators holds at most one row for each (indicator_code, date)
\* and volatility_data at most one for each (underlying_symbol, date,
\* volatility_period, volatility_type), and every record of the latest write is
\* stored with the value that write gave it.
C18_CompositeKeyUniqueness ==
    /\ \A r1, r2 \in economic_indicators :
          KeyConflict(r1, r2, EconomicIndicatorsKey) => r1 = r2
    /\ \A r1, r2 \in volatility_data :
          KeyConflict(r1, r2, VolatilityKey) => r1 = r2
    /\ dbcall.op = "insert_economic_indicators" =>
          LastWritten(EconomicIndicatorsKey) \subseteq economic_indicators
    /\ dbcall.op = "insert_volatility_data" =>
          LastWritten(VolatilityKey) \subseteq volatility_data

\* The closes a stored volatility was computed from swing up to `high`.
ComputedFrom(row, high) ==
    \E k \in DOMAIN row.volatility_value.of : row.volatility_value.of[k].den = high

\* The latest write replaced the first of a symbol's two rows: the table holds
\* that day's volatility of the wide closes and the next day's of the others.
C18_Witness ==
    /\ dbcall.op = "insert_volatility_data"
    /\ Len(dbcall.records) = 1
    /\ dbcall.records[1] \in volatility_data
    /\ ComputedFrom(dbcall.records[1], 1200)
    /\ \E r \in volatility_data :
          /\ r.underlying_symbol = dbcall.records[1].underlying_symbol
          /\ r.date # dbcall.records[1].date
          /\ ComputedFrom(r, 1100) /\ ~ComputedFrom(r, 1200)
    /\ \E r1, r2 \in economic_indicators :
          /\ r1.indicator_code = r2.indicator_code
          /\ r1.date # r2.date

----------------------------------------------------------------------------
(* Specification SpecTxn: any sequence of writes on the shared connection, *)
(* the engine accepting every statement or failing one of them             *)

MaxWrites == 3

\* The table a write call writes to.
TableOf(op) ==
    CASE op = "insert_asset" -> "assets"
      [] op = "insert_economic_indicators" -> "economic_indicators"
      [] op = "insert_volatility_data" -> "volatility_data"
      [] op = "update_sector_performance" -> "sector_performance"

TableKey(name) ==
    CASE name = "assets" -> AssetsKey
      [] name = "economic_indicators" -> EconomicIndicatorsKey
      [] name = "volatility_data" -> VolatilityKey
      [] name = "sector_performance" -> SectorKey

\* The committed tables.
Db ==
    [assets |-> assets, economic_indicators |-> economic_indicators,
     volatility_data |-> volatility_data, sector_performance |-> sector_performance]

\* One cursor.execute(INSERT OR REPLACE ...) for each record, in order.
Statements(name, records) == [i \in DOMAIN records |-> [table |-> name, row |-> records[i]]]

\* The tables once the statements are applied, in order.
RECURSIVE Apply(_, _)
Apply(db, statements) ==
    IF statements = <<>> THEN db
    ELSE Apply([db EXCEPT ![Head(statements).table] =
                    InsertOrReplace(@, Head(statements).row,
                                    TableKey(Head(statements).table))],
               Tail(statements))

\* How the engine treats the statements of a call: it accepts them all (at = 0),
\* or statement `at` raises an sqlite3.Error; the engine then undoes that
\* statement alone and leaves the transaction open, or, for the errors that
\* force it (disk full, I/O error), rolls the whole transaction back.
NoFault == [at |-> 0, rollback |-> FALSE]
Faults(records) == {NoFault} \cup [at : DOMAIN records, rollback : BOOLEAN]

\* The body shared by insert_asset, insert_economic_indicators,
\* insert_volatility_data and the sector_performance write: cursor.execute for
\* each record inside the open transaction of self.connection (sqlite3 opens it
\* before the first INSERT), then self.connection.commit(), which commits
\* everything the transaction holds; the except clause prints the error and
\* neither commits nor rolls back.
execute_and_commit(conn, db, name, records, fault) ==
    IF fault.at = 0
        THEN [db |-> Apply(db, conn.pending \o Statements(name, records)),
              connection |-> [pending |-> <<>>,
                              leaked |-> conn.leaked \o conn.pending,
                              writes |-> conn.writes + 1],
              outcome |-> "committed"]
    ELSE [db |-> db,
          connection |-> [pending |-> IF fault.rollback THEN <<>>
                                      ELSE conn.pending
                                             \o SubSeq(Statements(name, records),
                                                       1, fault.at - 1),
                          leaked |-> conn.leaked,
                          writes |-> conn.writes + 1],
          outcome |-> "sqlite_error"]

\* The write call `op` with `records` under `fault`, as a step.
Written(op, records, fault) ==
    \E w \in {execute_and_commit(connection, Db, TableOf(op), records, fault)} :
        /\ assets' = w.db.assets
        /\ economic_indicators' = w.db.economic_indicators
        /\ volatility_data' = w.db.volatility_data
        /\ sector_performance' = w.db.sector_performance
        /\ connection' = w.connection
        /\ dbcall' = [op |-> op, outcome |-> w.outcome, exc |-> "none",
                      symbol |-> PyNone, frame |-> "none", bars |-> <<>>,
                      records |-> records]

\* The asset records of SpecTxn: a minimal record and a primary one.
TxnAssets ==
    { create_minimal_asset(Text("AAPL"), Text("Stock")),
      map_alpha_vantage_to_asset(
          AVOverview(Text("SPY"), PyStr(<<"3", "0", "0", "0">>), PyStr(Str12_9),
                     PyStr(StrNone)),
          Text("ETF")).val }

\* The row insert_asset binds for a record.
AssetRow(asset_data) == CHOOSE r \in insert_asset({}, asset_data, Healthy).table : TRUE

\* An indicator record as collect_and_insert_economic_indicators builds it.
Indicator(series_id, day, value) ==
    [indicator_name |-> FredIndicators[series_id].name,
     indicator_code |-> Text(series_id),
     date |-> PyStr(DayChars(day)),
     value |-> value,
     unit |-> FredIndicators[series_id].unit,
     frequency |-> FredIndicators[series_id].frequency,
     source |-> FredIndicators[series_id].source]

\* The indicator batches: two months of a series, and the first month again
\* with another value.
IndicatorBatches ==
    { <<Indicator("UNRATE", 1, PyFloat(FALSE, <<"3">>, <<"7">>)),
        Indicator("UNRATE", 2, PyFloat(FALSE, <<"4">>, <<>>))>>,
      <<Indicator("UNRATE", 1, PyFloat(FALSE, <<"3">>, <<"9">>)),
        Indicator("FEDFUNDS", 1, PyFloat(FALSE, <<"5">>, <<"3", "3">>))>> }

\* The volatility batch: the records of a history two bars longer than the
\* window.
VolatilityBatch ==
    collect_and_insert_volatility_data(Healthy, {}, Text("SPY"),
                                       LongHistory(VolatilityWindow + 2)).records

\* The elements of a set, in a fixed order.
RECURSIVE SeqOf(_)
SeqOf(set) ==
    IF set = {} THEN <<>>
    ELSE LET x == CHOOSE y \in set : TRUE IN <<x>> \o SeqOf(set \ {x})

TxnInsertAsset ==
    /\ connection.writes < MaxWrites
    /\ \E d \in TxnAssets : \E fault \in Faults(<<d>>) :
          Written("insert_asset", <<AssetRow(d)>>, fault)
    /\ UNCHANGED <<coerce, daily_prices, lastAsset, runVars, sector_run, vol, batch>>

TxnInsertEconomicIndicators ==
    /\ connection.writes < MaxWrites
    /\ \E records \in IndicatorBatches : \E fault \in Faults(records) :
          Written("insert_economic_indicators", records, fault)
    /\ UNCHANGED <<coerce, daily_prices, lastAsset, runVars, sector_run, vol, batch>>

TxnInsertVolatilityData ==
    /\ connection.writes < MaxWrites
    /\ \E fault \in Faults(VolatilityBatch) :
          Written("insert_volatility_data", VolatilityBatch, fault)
    /\ UNCHANGED <<coerce, daily_prices, lastAsset, runVars, sector_run, vol, batch>>

\* update_sector_performance(): the write of lines 221-244, made only when
\* there are sector records.
TxnUpdateSectorPerformance ==
    /\ connection.writes < MaxWrites
    /\ \E records \in {SeqOf(update_sector_performance(assets, {}, SectorDays[1]))} :
          /\ records # <<>>
          /\ \E fault \in Faults(records) :
                Written("update_sector_performance", records, fault)
    /\ UNCHANGED <<coerce, daily_prices, lastAsset, runVars, sector_run, vol, batch>>

NextTxn ==
    \/ TxnInsertAsset
    \/ TxnInsertEconomicIndicators
    \/ TxnInsertVolatilityData
    \/ TxnUpdateSectorPerformance

SpecTxn == InitBatch /\ [][NextTxn]_vars

\* The tables as a query on the shared connection reads them: the committed
\* rows and, over them, the statements of the open transaction.
Visible == Apply(Db, connection.pending)

\* C23: a write call that returned successfully committed exactly its own
\* records, into its own table; a write call that failed leaves the committed
\* tables as they were, and every row the connection read before the call it
\* still reads after it.
C23_OwnCommittedTransaction ==
    [][connection'.writes # connection.writes =>
          IF dbcall'.outcome = "committed"
              THEN Db' = Apply(Db, Statements(TableOf(dbcall'.op), dbcall'.records))
          ELSE /\ Db' = Db
               /\ \A name \in DOMAIN Db : Visible[name] \subseteq Visible'[name]]_vars

\* C28: no statement that a failed write call executed before its failure has
\* been committed, by that call or by the commit of a later one.
C28_FailedBatchLeavesNothing == connection.leaked = <<>>

====
